---- MODULE Spec2Model ----
(***************************************************************************)
(* Gesture state machine of anatomy-explorer-pro: the hand detector's      *)
(* frame-result callback of HandController (onResults), the zustand store  *)
(* it publishes into, and the explicit view reset (Spec); the landmark     *)
(* classifier GestureRecognizer (KeypointSpec); the spring integrator      *)
(* SpringSolver (SpringSpec); and the render loop that reads the store and *)
(* drives the rig, together with the camera switch (SceneSpec); and the    *)
(* life cycle of HandController with the module-level detector singleton  *)
(* getOrCreateHands (MountSpec, and MountLiveSpec with fairness).          *)
(*                                                                         *)
(* Numbers.  Detector coordinates, distances, deltas, offsets and the zoom *)
(* factor are JavaScript doubles; they are modelled in fixed point with    *)
(* three decimals (1 unit = 0.001, 1000 units = 1.0).  Times are whole    *)
(* milliseconds of performance.now().  A value that may be null is a       *)
(* sequence: <<>> for null, <<v>> for the value v.                         *)
(***************************************************************************)
EXTENDS Integers, Sequences, FiniteSets, TLC

VARIABLES
    \* ---- the zustand store (useStore) ----
    leftHand, rightHand, gesture, zoomFactor, rotationDelta,
    leftChestOffset, rightChestOffset, accumulatedRotation, isModelLoaded,
    \* ---- HandController refs (useRef) ----
    prevLeftCentroid, prevRightCentroid, prevDist, lastUpdateRef,
    \* ---- closure variables of the mounting effect ----
    isActive,       \* set false only by the effect's cleanup (unmount), which
                    \*   is not part of this specification
    hasReportedReady,
    \* ---- the callback ----
    pending,        \* Null, or the decision of the callback that has called
                    \* applyRotationDelta and not yet setState
    \* ---- environment ----
    now,            \* performance.now(), in ms since the page's time origin
    frames,         \* number of detector results delivered so far
    \* ---- history (read by no action) ----
    lastLeft,       \* the hands of the preceding callback that got past
    lastRight,      \*   the isActive test (Null: that hand was absent)
    lastPublishAt,  \* time of the last callback that wrote to the store
    \* ---- GestureRecognizer: one call and what it returned ----
    keypoints,      \* the landmark array passed in (Null: no array)
    handedness,     \* the handedness passed to analyzeHand
    analysis,       \* Null, or what the four operations returned
    \* ---- one SpringSolver object and its caller ----
    spring,         \* value, velocity, target, stiffness, damping, mass
    springDt,       \* the caller's fixed deltaTime, in ms
    returned,       \* Null, or what the last update() returned
    springOp,       \* history: the last operation on the object
    restValue,      \* history: the value of the last constructor or reset
    springTime,     \* history: simulated ms since the target was last set
    \* ---- camera switch (store field and HandController ref) ----
    isCameraActive, cameraRunning,
    \* ---- the scene: RigController and ModelLoader ----
    movementIntensity,  \* store field
    bones,          \* the joints findBone found in the loaded model
    rotation,       \* rotation of every joint of the rig
    springs,        \* the four SpringSolver objects of RigController
    group,          \* rotation and scale of ModelLoader's group
    prevTime,       \* prevTime ref of RigController, in ms
    clock,          \* state.clock.getElapsedTime(), in ms
    ticks,          \* number of rendered frames so far
    \* ---- module-level state of HandController.tsx ----
    globalHandsInstance,    \* Null, or the number of the cached Hands instance
    isInitializing,
    initializationPromise,  \* Null, or the number of the instance it creates
    instances,      \* the Hands instances created so far, in order
    \* ---- HandController: refs and the latest run of the mounting effect ----
    handsRef,       \* Null, or the number of a Hands instance
    cameraRef,      \* Null, or the number of the mount that made the Camera
    pc,             \* where initializeMediaPipe of the latest run stands
    awaited,        \* Null, or the promise that run awaits
    loadingTimeout, \* the 15 s timer of that run
    stale,          \* what the runs that were cleaned up still await
    mounts,         \* number of times the component was mounted
    sent,           \* frames the camera has handed to the detector
    \* ---- RigController.findBone: one call and what it returned ----
    nodes,          \* the model's nodes, in the order of Object.keys
    lookup,         \* Null, or the arguments: patterns and exclusion
    found           \* Null, or what the call returned

controllerVars == <<leftHand, rightHand, gesture, zoomFactor, rotationDelta,
          leftChestOffset, rightChestOffset, accumulatedRotation, isModelLoaded,
          prevLeftCentroid, prevRightCentroid, prevDist, lastUpdateRef,
          isActive, hasReportedReady, pending, now, frames,
          lastLeft, lastRight, lastPublishAt>>

keypointVars == <<keypoints, handedness, analysis>>

springVars == <<spring, springDt, returned, springOp, restValue, springTime>>

cameraVars == <<isCameraActive, cameraRunning>>

sceneVars == <<movementIntensity, bones, rotation, springs, group, prevTime,
               clock, ticks>>

mountVars == <<globalHandsInstance, isInitializing, initializationPromise,
               instances, handsRef, cameraRef, pc, awaited, loadingTimeout,
               stale, mounts, sent>>

boneVars == <<nodes, lookup, found>>

vars == <<controllerVars, keypointVars, springVars, cameraVars, sceneVars,
          mountVars, boneVars>>

\* The hand-derived fields of the store.
storeVars == <<leftHand, rightHand, gesture, zoomFactor, rotationDelta,
               leftChestOffset, rightChestOffset, accumulatedRotation>>

refVars == <<prevLeftCentroid, prevRightCentroid, prevDist, lastUpdateRef>>

historyVars == <<lastLeft, lastRight, lastPublishAt>>

----------------------------------------------------------------------------
\* Bounds of the model.

\* Detector results delivered in one behaviour.
MaxFrames == 3

\* Hands in one detector result (maxNumHands: 2).
MaxNumHands == 2

----------------------------------------------------------------------------
\* Program constants, in model units.

\* if (Math.abs(delta) > 0.005)
ZoomDeadZone == 5

\* Math.max(0.5, Math.min(newZoom, 5))
ZoomMin == 500

ZoomMax == 5000

\* zoomFactor: 1
InitialZoom == 1000

\* if (now - lastUpdateRef.current > 32)
ThrottleMs == 32

----------------------------------------------------------------------------
\* Optional values.

Null == <<>>

Some(v) == <<v>>

Val(o) == o[1]

Zero2 == [x |-> 0, y |-> 0]

Abs(n) == IF n < 0 THEN -n ELSE n

Min(a, b) == IF a < b THEN a ELSE b

Max(a, b) == IF a > b THEN a ELSE b

\* Largest r with r*r <= n (the square root of Math.hypot, rounded down to
\* the model's unit), found bit by bit from the highest bit down.
RECURSIVE SqrtBits(_, _, _)
SqrtBits(n, r, bit) ==
    IF bit = 0 THEN r
    ELSE IF (r + bit) * (r + bit) <= n
         THEN SqrtBits(n, r + bit, bit \div 2)
         ELSE SqrtBits(n, r, bit \div 2)

ISqrt(n) == SqrtBits(n, 0, 2048)

----------------------------------------------------------------------------
\* Inputs.

\* Centroids the detector may report.  A and B are 6 units apart; D is far
\* from both in all three axes, 1001 units from A and 996 from B.  So the
\* distance between two hands can change by 5 (inside the zoom dead zone),
\* by 6 (just outside) and by about 1000, and the y coordinates differ by
\* multiples of 5 units, which keeps 0.2 * deltaY exact.
CentroidA == [x |-> 100, y |-> 100, z |-> 0]

CentroidB == [x |-> 106, y |-> 100, z |-> 0]

CentroidD == [x |-> 900, y |-> 700, z |-> 50]

Labels == {"Left", "Right"}

\* The Hand analyzeHand returns for a valid 21-landmark set.  isGrabbing and
\* isOpen are never both true: a finger is never both curled (tip nearer the
\* wrist than the PIP) and extended (tip farther), and each flag needs 3 of
\* the 4 fingers.
HandOf(label, c, grabbing, open) ==
    [handedness |-> label, centroid |-> c, isGrabbing |-> grabbing, isOpen |-> open]

\* The hands the detector reports for one label: a fist at A, an open hand
\* at B, and a hand at D that is neither.
Hands(label) ==
    { HandOf(label, CentroidA, TRUE, FALSE),
      HandOf(label, CentroidB, FALSE, TRUE),
      HandOf(label, CentroidD, FALSE, FALSE) }

\* One entry of a detector result: its handedness label ("none" when
\* multiHandedness has no entry at that index) and what analyzeHand makes of
\* its landmarks (Null for an undersized or incomplete landmark set).
Entries ==
    { [label |-> l, hand |-> Null] : l \in Labels \cup {"none"} } \cup
    UNION { { [label |-> l, hand |-> Some(h)] : h \in Hands(l) } : l \in Labels }

ResultSets == UNION { [1..n -> Entries] : n \in 0..MaxNumHands }

\* Milliseconds between two detector results.
FrameGaps == {16, 33}

\* performance.now() when the results callback is registered: the page has
\* loaded and the detector has initialised, a second after the time origin.
StartedAt == 1000

----------------------------------------------------------------------------
\* GestureRecognizer.calculateDistance
calculateDistance(p1, p2) ==
    ISqrt((p1.x - p2.x) * (p1.x - p2.x) + (p1.y - p2.y) * (p1.y - p2.y)
          + (p1.z - p2.z) * (p1.z - p2.z))

\* The loop over results.multiHandLandmarks: the hand stored for `side` is
\* the analysis of the last entry carrying that label; every label other
\* than 'Left' lands on the right, and an index without handedness is skipped.
RECURSIVE AssignHand(_, _, _, _)

RECURSIVE AssignHandUnlabelled(_, _, _, _)

\* Mutant of AssignHand: an index without handedness is not skipped but
\* taken for a right hand.
AssignHandUnlabelled(results, side, index, acc) ==
    IF index > Len(results) THEN acc
    ELSE LET e == results[index]
             mine == IF side = "Left" THEN e.label = "Left" ELSE e.label # "Left"
         IN  AssignHandUnlabelled(results, side, index + 1,
                                  IF mine THEN e.hand ELSE acc)

AssignHand(results, side, index, acc) ==
    IF index > Len(results) THEN acc
    ELSE LET e == results[index]
             mine == IF side = "Left" THEN e.label = "Left"
                     ELSE e.label # "Left" /\ e.label # "none"
         IN  AssignHand(results, side, index + 1, IF mine THEN e.hand ELSE acc)

\* Mutant of ScaleZoom: the distance change is not doubled.
ScaleZoomSingle(zoom, delta) == (zoom * (1000 + delta)) \div 1000

\* newZoom = state.zoomFactor * (1 + delta * 2), in thousandths.
ScaleZoom(zoom, delta) == (zoom * (1000 + 2 * delta)) \div 1000

\* Mutant of ClampZoom: only the upper limit is enforced.
ClampZoomAbove(z) == Min(z, ZoomMax)

\* newZoom = Math.max(0.5, Math.min(newZoom, 5))
ClampZoom(z) == Max(ZoomMin, Min(z, ZoomMax))

\* Math.abs(delta) > 0.005
OutsideDeadZone(delta) == Abs(delta) > ZoomDeadZone

\* Mutant of RotationOf: the vertical movement is not damped.
RotationUndamped(current, prev) ==
    [x |-> current.x - prev.x, y |-> current.y - prev.y]

\* rotationDelta = { x: deltaX, y: deltaY * 0.2 }
RotationOf(current, prev) ==
    [x |-> current.x - prev.x, y |-> ((current.y - prev.y) * 2) \div 10]

\* Mutant of OffsetOf: the vertical movement is damped as for a rotation.
OffsetDamped(current, prev) ==
    [x |-> current.x - prev.x, y |-> ((current.y - prev.y) * 2) \div 10]

\* leftChestDelta / rightChestDelta = { x: deltaX, y: deltaY }
OffsetOf(current, prev) ==
    [x |-> current.x - prev.x, y |-> current.y - prev.y]

\* Mutant of TwoHands: prevDist is not cleared when fewer than two hands
\* are present.
TwoHandsKeepingDistance(left, right, zoom, pL, pR, pD) ==
    IF left # Null /\ right # Null
    THEN LET dist == calculateDistance(Val(left).centroid, Val(right).centroid)
             delta == dist - Val(pD)
             zooming == pD # Null /\ OutsideDeadZone(delta)
         IN  [currentGesture |-> IF zooming
                                 THEN IF delta > 0 THEN "ZOOM_IN" ELSE "ZOOM_OUT"
                                 ELSE "IDLE",
              newZoom  |-> IF zooming THEN ClampZoom(ScaleZoom(zoom, delta)) ELSE zoom,
              prevDist |-> Some(dist),
              prevLeftCentroid  |-> Null,
              prevRightCentroid |-> Null]
    ELSE [currentGesture |-> "IDLE", newZoom |-> zoom, prevDist |-> pD,
          prevLeftCentroid |-> pL, prevRightCentroid |-> pR]

\* PRIORITY 1: Two Hands = Zoom.  The gesture, zoom and history after the
\* first block of the callback.
TwoHands(left, right, zoom, pL, pR, pD) ==
    IF left # Null /\ right # Null
    THEN LET dist == calculateDistance(Val(left).centroid, Val(right).centroid)
             delta == dist - Val(pD)
             zooming == pD # Null /\ OutsideDeadZone(delta)
         IN  [currentGesture |-> IF zooming
                                 THEN IF delta > 0 THEN "ZOOM_IN" ELSE "ZOOM_OUT"
                                 ELSE "IDLE",
              newZoom  |-> IF zooming THEN ClampZoom(ScaleZoom(zoom, delta)) ELSE zoom,
              prevDist |-> Some(dist),
              prevLeftCentroid  |-> Null,
              prevRightCentroid |-> Null]
    ELSE [currentGesture |-> "IDLE", newZoom |-> zoom, prevDist |-> Null,
          prevLeftCentroid |-> pL, prevRightCentroid |-> pR]

\* Mutant of OneHand: the block does not ask for the other hand to be absent.
OneHandIgnoringOther(hand, other, prev, interact, d) ==
    IF hand # Null
    THEN LET current == Val(hand).centroid
         IN  IF Val(hand).isGrabbing
             THEN [gesture |-> "ROTATE",
                   rotationDelta |-> IF prev # Null THEN RotationOf(current, Val(prev))
                                     ELSE d.rotationDelta,
                   chestDelta |-> Zero2, prev |-> Some(current)]
             ELSE IF Val(hand).isOpen
             THEN [gesture |-> interact,
                   rotationDelta |-> d.rotationDelta,
                   chestDelta |-> IF prev # Null THEN OffsetOf(current, Val(prev))
                                  ELSE Zero2,
                   prev |-> Some(current)]
             ELSE [gesture |-> d.currentGesture, rotationDelta |-> d.rotationDelta,
                   chestDelta |-> Zero2, prev |-> Some(current)]
    ELSE [gesture |-> d.currentGesture, rotationDelta |-> d.rotationDelta,
          chestDelta |-> Zero2, prev |-> Null]

\* Mutant of OneHand: the previous centroid is not cleared when the hand is
\* not the only one present.
OneHandKeepingCentroid(hand, other, prev, interact, d) ==
    IF hand # Null /\ other = Null
    THEN LET current == Val(hand).centroid
         IN  IF Val(hand).isGrabbing
             THEN [gesture |-> "ROTATE",
                   rotationDelta |-> IF prev # Null THEN RotationOf(current, Val(prev))
                                     ELSE d.rotationDelta,
                   chestDelta |-> Zero2, prev |-> Some(current)]
             ELSE IF Val(hand).isOpen
             THEN [gesture |-> interact,
                   rotationDelta |-> d.rotationDelta,
                   chestDelta |-> IF prev # Null THEN OffsetOf(current, Val(prev))
                                  ELSE Zero2,
                   prev |-> Some(current)]
             ELSE [gesture |-> d.currentGesture, rotationDelta |-> d.rotationDelta,
                   chestDelta |-> Zero2, prev |-> Some(current)]
    ELSE [gesture |-> d.currentGesture, rotationDelta |-> d.rotationDelta,
          chestDelta |-> Zero2, prev |-> prev]

\* Mutant of OneHand: a hand that is neither grabbing nor open is not
\* tracked, and its previous centroid is cleared.
OneHandForgettingRest(hand, other, prev, interact, d) ==
    IF hand # Null /\ other = Null
    THEN LET current == Val(hand).centroid
         IN  IF Val(hand).isGrabbing
             THEN [gesture |-> "ROTATE",
                   rotationDelta |-> IF prev # Null THEN RotationOf(current, Val(prev))
                                     ELSE d.rotationDelta,
                   chestDelta |-> Zero2, prev |-> Some(current)]
             ELSE IF Val(hand).isOpen
             THEN [gesture |-> interact,
                   rotationDelta |-> d.rotationDelta,
                   chestDelta |-> IF prev # Null THEN OffsetOf(current, Val(prev))
                                  ELSE Zero2,
                   prev |-> Some(current)]
             ELSE [gesture |-> d.currentGesture, rotationDelta |-> d.rotationDelta,
                   chestDelta |-> Zero2, prev |-> Null]
    ELSE [gesture |-> d.currentGesture, rotationDelta |-> d.rotationDelta,
          chestDelta |-> Zero2, prev |-> Null]

\* One single-hand block of PRIORITY 2, for the hand `hand` whose previous
\* centroid is `prev`, `other` being the opposite hand; `interact` is the
\* INTERACT_* gesture of this side and d the decision so far.
OneHand(hand, other, prev, interact, d) ==
    IF hand # Null /\ other = Null
    THEN LET current == Val(hand).centroid
         IN  IF Val(hand).isGrabbing
             THEN [gesture |-> "ROTATE",
                   rotationDelta |-> IF prev # Null THEN RotationOf(current, Val(prev))
                                     ELSE d.rotationDelta,
                   chestDelta |-> Zero2, prev |-> Some(current)]
             ELSE IF Val(hand).isOpen
             THEN [gesture |-> interact,
                   rotationDelta |-> d.rotationDelta,
                   chestDelta |-> IF prev # Null THEN OffsetOf(current, Val(prev))
                                  ELSE Zero2,
                   prev |-> Some(current)]
             ELSE [gesture |-> d.currentGesture, rotationDelta |-> d.rotationDelta,
                   chestDelta |-> Zero2, prev |-> Some(current)]
    ELSE [gesture |-> d.currentGesture, rotationDelta |-> d.rotationDelta,
          chestDelta |-> Zero2, prev |-> Null]

\* The decision of one callback: lines 119-191, from the analysed hands, the
\* store's zoomFactor and the three history refs.
Decide(left, right, zoom, pL, pR, pD) ==
    LET z == TwoHands(left, right, zoom, pL, pR, pD)
        z0 == [z EXCEPT !.currentGesture = z.currentGesture] @@ [rotationDelta |-> Zero2]
    IN  IF z.currentGesture = "IDLE"
        THEN LET r == OneHand(right, left, z.prevRightCentroid, "INTERACT_RIGHT", z0)
                 r0 == [z0 EXCEPT !.currentGesture = r.gesture,
                                  !.rotationDelta = r.rotationDelta]
                 l == OneHand(left, right, z.prevLeftCentroid, "INTERACT_LEFT", r0)
             IN  [leftHand |-> left, rightHand |-> right,
                  currentGesture |-> l.gesture, newZoom |-> z.newZoom,
                  rotationDelta |-> l.rotationDelta,
                  leftChestDelta |-> l.chestDelta, rightChestDelta |-> r.chestDelta,
                  prevDist |-> z.prevDist,
                  prevLeftCentroid |-> l.prev, prevRightCentroid |-> r.prev]
        ELSE [leftHand |-> left, rightHand |-> right,
              currentGesture |-> z.currentGesture, newZoom |-> z.newZoom,
              rotationDelta |-> Zero2,
              leftChestDelta |-> Zero2, rightChestDelta |-> Zero2,
              prevDist |-> z.prevDist,
              prevLeftCentroid |-> z.prevLeftCentroid,
              prevRightCentroid |-> z.prevRightCentroid]

\* Mutant of ThrottleOpen: a callback exactly 32 ms later gets through.
ThrottleOpenAtLimit(t, last) == t - last >= ThrottleMs

\* if (now - lastUpdateRef.current > 32)
ThrottleOpen(t, last) == t - last > ThrottleMs

\* applyRotationDelta(delta): adds the delta into accumulatedRotation.
applyRotationDelta(acc, delta) == [x |-> acc.x + delta.x, y |-> acc.y + delta.y]

----------------------------------------------------------------------------
\* GestureRecognizer: landmark sets and the four operations on them.
\*
\* A landmark array is a sequence of entries, landmark i at position i + 1;
\* an entry is Null (undefined) or Some(point).  The array argument itself
\* is Null (no array) or Some(array).

\* Landmarks absent from one array of 21 or 22 entries.
MaxAbsent == 1

WRIST == 0

THUMB_TIP == 4

INDEX_TIP == 8

\* const PINCH_THRESHOLD = 0.05
PINCH_THRESHOLD == 50

REQUIRED_KEYPOINTS == 21

\* The (tip, pip) landmark pairs of index, middle, ring and pinky.
Fingers == { <<8, 6>>, <<12, 10>>, <<16, 14>>, <<20, 18>> }

\* keypoints[i]
At(k, i) == IF i + 1 \in DOMAIN k THEN k[i + 1] ELSE Null

\* static isPinching(keypoints)
isPinching(kps) ==
    IF kps = Null \/ Len(Val(kps)) < REQUIRED_KEYPOINTS THEN FALSE
    ELSE LET thumbTip == At(Val(kps), THUMB_TIP)
             indexTip == At(Val(kps), INDEX_TIP)
         IN  IF thumbTip = Null \/ indexTip = Null THEN FALSE
             ELSE calculateDistance(Val(thumbTip), Val(indexTip)) < PINCH_THRESHOLD

\* const isCurled = (tipIdx, pipIdx) => ...   (inside isGrabbing)
isCurled(k, tipIdx, pipIdx) ==
    LET tip == At(k, tipIdx)
        pip == At(k, pipIdx)
        wrist == At(k, WRIST)
    IN  IF tip = Null \/ pip = Null \/ wrist = Null THEN FALSE
        ELSE calculateDistance(Val(tip), Val(wrist))
                < calculateDistance(Val(pip), Val(wrist))

\* const isExtended = (tipIdx, pipIdx) => ...   (inside isOpen)
isExtended(k, tipIdx, pipIdx) ==
    LET tip == At(k, tipIdx)
        pip == At(k, pipIdx)
        wrist == At(k, WRIST)
    IN  IF tip = Null \/ pip = Null \/ wrist = Null THEN FALSE
        ELSE calculateDistance(Val(tip), Val(wrist))
                > calculateDistance(Val(pip), Val(wrist))

\* Mutant of GrabMajority: two curled fingers make a fist.
GrabMajorityOfTwo(curledCount) == curledCount >= 2

\* return curledCount >= 3
GrabMajority(curledCount) == curledCount >= 3

\* static isGrabbing(keypoints)
isGrabbing(kps) ==
    IF kps = Null \/ Len(Val(kps)) < REQUIRED_KEYPOINTS THEN FALSE
    ELSE GrabMajority(Cardinality({ f \in Fingers : isCurled(Val(kps), f[1], f[2]) }))

\* Mutant of isOpen: one extended finger is enough.
isOpenAnyFinger(kps) ==
    IF kps = Null \/ Len(Val(kps)) < REQUIRED_KEYPOINTS THEN FALSE
    ELSE Cardinality({ f \in Fingers : isExtended(Val(kps), f[1], f[2]) }) >= 1

\* static isOpen(keypoints)
isOpen(kps) ==
    IF kps = Null \/ Len(Val(kps)) < REQUIRED_KEYPOINTS THEN FALSE
    ELSE Cardinality({ f \in Fingers : isExtended(Val(kps), f[1], f[2]) }) >= 3

\* Mutant of CentroidOf: the ring-finger base takes the place of the
\* pinky base.
CentroidOfInnerPalm(k) ==
    LET p0 == Val(At(k, 0))
        p5 == Val(At(k, 5))
        p13 == Val(At(k, 13))
    IN  [x |-> (p0.x + p5.x + p13.x) \div 3,
         y |-> (p0.y + p5.y + p13.y) \div 3,
         z |-> (p0.z + p5.z + p13.z) \div 3]

\* const centroid = { x: (p0.x + p5.x + p17.x) / 3, ... }
CentroidOf(k) ==
    LET p0 == Val(At(k, 0))
        p5 == Val(At(k, 5))
        p17 == Val(At(k, 17))
    IN  [x |-> (p0.x + p5.x + p17.x) \div 3,
         y |-> (p0.y + p5.y + p17.y) \div 3,
         z |-> (p0.z + p5.z + p17.z) \div 3]

\* Mutant of TooShort: an array of 20 entries is accepted.
TooShortBelowTwenty(kps) == kps = Null \/ Len(Val(kps)) < REQUIRED_KEYPOINTS - 1

\* if (!keypoints || keypoints.length < 21)   (inside analyzeHand)
TooShort(kps) == kps = Null \/ Len(Val(kps)) < REQUIRED_KEYPOINTS

\* static analyzeHand(keypoints, handedness)
analyzeHand(kps, side) ==
    IF TooShort(kps) THEN Null
    ELSE LET k == Val(kps)
         IN  IF At(k, 0) = Null \/ At(k, 5) = Null \/ At(k, 17) = Null THEN Null
             ELSE Some([keypoints |-> k,
                        handedness |-> side,
                        isPinching |-> isPinching(kps),
                        isGrabbing |-> isGrabbing(kps),
                        isOpen |-> isOpen(kps),
                        centroid |-> CentroidOf(k)])

----------------------------------------------------------------------------
\* Landmark arrays the detector may hand over.
\*
\* The wrist is at (0.5, 0.9).  Finger f has its PIP joint 0.3 above the
\* wrist in its own column; its tip is 0.15 above the wrist when curled,
\* 0.5 above when extended, and level with the PIP in the mirrored column
\* (the same distance from the wrist, to the last digit) when "level".

Wrist0 == [x |-> 500, y |-> 900, z |-> 0]

Palm5 == [x |-> 440, y |-> 600, z |-> 30]

Palm17 == [x |-> 590, y |-> 630, z |-> -30]

FingerPoses == {"curled", "extended", "level"}

\* The finger (1 index .. 4 pinky) a tip or PIP landmark belongs to.
FingerOf(i) == (i - 2) \div 4

ColumnOf(f) == 40 * f - 100

Pip(f) == [x |-> Wrist0.x + ColumnOf(f), y |-> Wrist0.y - 300, z |-> 0]

Tip(f, pose) ==
    CASE pose = "curled" -> [x |-> Wrist0.x + ColumnOf(f), y |-> Wrist0.y - 150, z |-> 0]
      [] pose = "extended" -> [x |-> Wrist0.x + ColumnOf(f), y |-> Wrist0.y - 500, z |-> 0]
      [] OTHER -> [x |-> Wrist0.x - ColumnOf(f), y |-> Wrist0.y - 300, z |-> 0]

\* The thumb tip: 0.049 from the index tip when touching, 0.05 when not.
Thumb(pose, touching) ==
    LET tip == Tip(1, pose[1])
    IN  [tip EXCEPT !.x = tip.x + (IF touching THEN PINCH_THRESHOLD - 1
                                               ELSE PINCH_THRESHOLD)]

\* Landmark i of a complete hand.
Landmark(i, pose, touching) ==
    CASE i = WRIST -> Wrist0
      [] i = THUMB_TIP -> Thumb(pose, touching)
      [] i = 5 -> Palm5
      [] i = 17 -> Palm17
      [] i \in {6, 10, 14, 18} -> Pip(FingerOf(i))
      [] i \in {8, 12, 16, 20} -> Tip(FingerOf(i) , pose[FingerOf(i)])
      [] OTHER -> [x |-> 500 + i, y |-> 800 - 10 * i, z |-> i]

\* An array of n entries, all present.
HandArray(n, pose, touching) ==
    [i \in 1..n |-> Some(Landmark(i - 1, pose, touching))]

\* The array k with the landmarks of S made undefined.
Without(k, S) == [i \in DOMAIN k |-> IF (i - 1) \in S THEN Null ELSE k[i]]

\* Landmarks that may be absent: the twelve the operations read, and two
\* they do not.
AbsentIndices == {0, 4, 5, 6, 8, 10, 12, 14, 16, 17, 18, 20} \cup {1, 9}

AbsentSets == { S \in SUBSET AbsentIndices : Cardinality(S) <= MaxAbsent }

ShortLengths == {0, 1, REQUIRED_KEYPOINTS - 1}

FullLengths == {REQUIRED_KEYPOINTS, REQUIRED_KEYPOINTS + 1}

KeypointArrays ==
    { Null } \cup
    { Some(HandArray(n, pose, touching)) :
        n \in ShortLengths, pose \in [1..4 -> FingerPoses], touching \in BOOLEAN } \cup
    { Some(Without(HandArray(n, pose, touching), S)) :
        n \in FullLengths, pose \in [1..4 -> FingerPoses],
        touching \in BOOLEAN, S \in AbsentSets }

----------------------------------------------------------------------------
\* SpringSolver.
\*
\* value and target are in units of 0.0001, velocity in units of 0.0001 per
\* second, deltaTime in whole milliseconds; a product with deltaTime is
\* rounded to the nearest unit.

\* constructor(initialValue, stiffness = 120, damping = 10, mass = 1)
DefaultStiffness == 120

DefaultDamping == 10

DefaultMass == 1

\* Math.min(deltaTime, 0.05)
MaxDeltaTime == 50

\* n / d, rounded to the nearest integer.
Rounded(n, d) == (n + d \div 2) \div d

\* a * dt, for a in units per second and dt in ms.
TimesDt(a, dt) == Rounded(a * dt, 1000)

\* new SpringSolver(initialValue, stiffness, damping, mass)
NewSpring(initialValue, stiffness, damping, mass) ==
    [value |-> initialValue, velocity |-> 0, target |-> initialValue,
     stiffness |-> stiffness, damping |-> damping, mass |-> mass]

\* Mutant of reset: the velocity survives the reset.
resetKeepingVelocity(s, v) == [s EXCEPT !.value = v, !.target = v]

\* reset(value)
reset(s, v) == [s EXCEPT !.value = v, !.velocity = 0, !.target = v]

\* const safeDt = Math.min(deltaTime, 0.05)
SafeDt(deltaTime) == Min(deltaTime, MaxDeltaTime)

\* Mutant of update: explicit Euler, the value advances by the old velocity.
updateExplicit(s, deltaTime) ==
    LET safeDt == SafeDt(deltaTime)
        displacement == s.value - s.target
        force == (-s.stiffness * displacement) + (-s.damping * s.velocity)
        acceleration == Rounded(force, s.mass)
    IN  [s EXCEPT !.velocity = s.velocity + TimesDt(acceleration, safeDt),
                  !.value = s.value + TimesDt(s.velocity, safeDt)]

\* Mutant of update: the damping force is left out.
updateUndamped(s, deltaTime) ==
    LET safeDt == SafeDt(deltaTime)
        displacement == s.value - s.target
        acceleration == Rounded(-s.stiffness * displacement, s.mass)
        velocity == s.velocity + TimesDt(acceleration, safeDt)
    IN  [s EXCEPT !.velocity = velocity,
                  !.value = s.value + TimesDt(velocity, safeDt)]

\* update(deltaTime): the object after the call; the call returns its value.
update(s, deltaTime) ==
    LET safeDt == SafeDt(deltaTime)
        displacement == s.value - s.target
        springForce == -s.stiffness * displacement
        dampingForce == -s.damping * s.velocity
        force == springForce + dampingForce
        acceleration == Rounded(force, s.mass)
        velocity == s.velocity + TimesDt(acceleration, safeDt)
    IN  [s EXCEPT !.velocity = velocity,
                  !.value = s.value + TimesDt(velocity, safeDt)]

\* Inputs of SpringSpec: initial and target values, the parameters of the
\* default spring and of RigController's chest springs, and the caller's
\* frame times (1000 ms: a frame after the tab was in the background).
SpringValues == {0, 10000, -5000}

SpringParams == { <<DefaultStiffness, DefaultDamping, DefaultMass>>, <<120, 6, 1>> }

SpringDts == {5, 16, 33, 50, 1000}

----------------------------------------------------------------------------
\* The rig and the states in which a part of the program has not run yet.

\* The joints RigController looks up in the loaded model and drives.
Joints == {"hips", "chest", "breastL", "breastR", "buttL", "buttR",
           "upperLegL", "upperLegR"}

\* initialRotations[bone.uuid]: the rotation the model file gives a joint,
\* in units of 0.0001 rad.
BaseRotation == [x |-> 1000, y |-> 0, z |-> -500]

\* No landmark array has been analysed.
KeypointIdle == keypoints = Null /\ handedness = "Left" /\ analysis = Null

BoneIdle == nodes = <<>> /\ lookup = Null /\ found = Null

\* A default spring at rest that nobody calls.
SpringIdle ==
    /\ spring = NewSpring(0, DefaultStiffness, DefaultDamping, DefaultMass)
    /\ springDt = MaxDeltaTime
    /\ returned = Null
    /\ springOp = "new"
    /\ restValue = 0
    /\ springTime = 0

\* isCameraActive: true, and the camera started by the mounting effect.
CameraOn == isCameraActive = TRUE /\ cameraRunning = TRUE

\* The scene once a model with the joints b is loaded and RigController's
\* effect has stored the initial rotations; no frame has been rendered.
SceneLoaded(b) ==
    /\ movementIntensity = 500
    /\ bones = b
    /\ rotation = [j \in Joints |-> BaseRotation]
    /\ springs = [leftChest |-> NewSpring(0, 120, 6, DefaultMass),
                  rightChest |-> NewSpring(0, 120, 6, DefaultMass),
                  leftHip |-> NewSpring(0, 100, 5, DefaultMass),
                  rightHip |-> NewSpring(0, 100, 5, DefaultMass)]
    /\ group = [x |-> 0, y |-> 0, scale |-> 10000]
    /\ prevTime = 0
    /\ clock = 0
    /\ ticks = 0

\* A Hands instance: the state of its initialize() promise (init), whether
\* the 10 s timer of getOrCreateHands fired first (timedOut), the state of
\* the promise getOrCreateHands made for it (promise: "pending", "hands"
\* when resolved with the instance, "null", "rejected"), whether a results
\* callback is registered on it and whether close() was called on it.
NewHands ==
    [init |-> "pending", timedOut |-> FALSE, promise |-> "pending",
     onResults |-> FALSE, closed |-> FALSE]

\* The one Hands instance of a component whose mounting effect has run to
\* its end: initialised, cached, with the results callback registered.
ReadyHands ==
    [init |-> "resolved", timedOut |-> FALSE, promise |-> "hands",
     onResults |-> TRUE, closed |-> FALSE]

\* HandController mounted once, its mounting effect at its end: the
\* detector initialised and cached, the camera created and started.
MountedReady ==
    /\ globalHandsInstance = Some(1)
    /\ isInitializing = FALSE
    /\ initializationPromise = Some(1)
    /\ instances = <<ReadyHands>>
    /\ handsRef = Some(1)
    /\ cameraRef = Some(1)
    /\ pc = "done"
    /\ awaited = Null
    /\ loadingTimeout = "cleared"
    /\ stale = [hands |-> {}, camera |-> FALSE]
    /\ mounts = 1
    /\ sent = 0

----------------------------------------------------------------------------
\* The render loop: RigController's and ModelLoader's frame callbacks.
\*
\* Joint rotations, spring values and the group's rotation and scale are in
\* units of 0.0001; store values (offsets, accumulated rotation, zoom,
\* movementIntensity) are in units of 0.001; the clock is in ms.

\* Frames rendered in one behaviour.
MaxTicks == 2

\* Math.PI / 2, Math.PI * 1.5 and Math.PI * 2 in units of 0.001; an angle
\* of a whole number of units is below pi/2 iff it is below HalfPi and
\* above 3pi/2 iff it is above ThreeHalfPi.
HalfPi == 1571

ThreeHalfPi == 4712

TwoPi == 6283

\* a % b of JavaScript: the remainder has the sign of a.
JsRem(a, b) == IF a >= 0 THEN a % b ELSE -((-a) % b)

\* Math.sin(a) for a >= 0 in units of 0.001 rad, in units of 0.0001
\* (Bhaskara's rational approximation).
Sin(a) ==
    LET pi == TwoPi \div 2
        r == a % TwoPi
        h == IF r <= pi THEN r ELSE r - pi
        p == h * (pi - h)
        s == (16 * p) \div ((5 * pi * pi - 4 * p) \div 10000)
    IN  IF r <= pi THEN s ELSE -s

\* THREE.MathUtils.lerp(a, b, t) for t = t100 / 100.
Lerp(a, b, t100) == a + Rounded((b - a) * t100, 100)

\* const isFrontView = ...
IsFrontView(acc) ==
    LET normalizedRotation == JsRem(acc.x * 3, TwoPi)
    IN  Abs(normalizedRotation) < HalfPi \/ Abs(normalizedRotation) > ThreeHalfPi

\* const breathCycle = Math.sin(time * 1.2) * physicsMultiplier * 0.02
BreathCycle(time, mult) == Rounded(Sin(Rounded(time * 12, 10)) * (mult \div 5), 10000)

\* Math.sin(angle) * 0.01 * physicsMultiplier
IdleTarget(angle, mult) == Rounded(Sin(angle) * (mult \div 10), 10000)

\* Math.abs(interactOffset.y) * 20.0 * physicsMultiplier
ChestForce(off, mult) == (Abs(off.y) * mult) \div 5

\* Math.abs(offset.y) * 25.0 * physicsMultiplier + offset.x * 20.0 * physicsMultiplier
HipForce(off, mult) == Rounded((Abs(off.y) * 25 + off.x * 20) * mult, 100)

\* Mutant of FrameOf: the hip side does not ask for the back view.
FrameOfAnyView(time) ==
    LET front == IsFrontView(accumulatedRotation)
    IN  [time |-> time,
         deltaTime |-> Min(time - prevTime, 100),
         mult |-> movementIntensity,
         gesture |-> gesture,
         isFrontView |-> front,
         isBackView |-> ~front,
         breathCycle |-> BreathCycle(time, movementIntensity),
         isInteracting |-> gesture \in {"INTERACT_LEFT", "INTERACT_RIGHT"},
         interactOffset |-> IF gesture = "INTERACT_LEFT" THEN leftChestOffset
                            ELSE IF gesture = "INTERACT_RIGHT" THEN rightChestOffset
                            ELSE Zero2,
         left |-> leftChestOffset,
         right |-> rightChestOffset,
         isLeftInteracting |-> gesture = "INTERACT_LEFT",
         isRightInteracting |-> gesture = "INTERACT_RIGHT"]

\* What one frame of RigController reads from the store and the clock.
FrameOf(time) ==
    LET front == IsFrontView(accumulatedRotation)
    IN  [time |-> time,
         deltaTime |-> Min(time - prevTime, 100),
         mult |-> movementIntensity,
         gesture |-> gesture,
         isFrontView |-> front,
         isBackView |-> ~front,
         breathCycle |-> BreathCycle(time, movementIntensity),
         isInteracting |-> gesture \in {"INTERACT_LEFT", "INTERACT_RIGHT"},
         interactOffset |-> IF gesture = "INTERACT_LEFT" THEN leftChestOffset
                            ELSE IF gesture = "INTERACT_RIGHT" THEN rightChestOffset
                            ELSE Zero2,
         left |-> leftChestOffset,
         right |-> rightChestOffset,
         isLeftInteracting |-> ~front /\ gesture = "INTERACT_LEFT",
         isRightInteracting |-> ~front /\ gesture = "INTERACT_RIGHT"]

\* Mutant of ChestSprings: both chest forces keep the offset's magnitude.
ChestSpringsCrosstalk(f, sp) ==
    LET targets ==
            IF f.isFrontView /\ f.isInteracting
            THEN [left |-> ChestForce(f.interactOffset, f.mult),
                  right |-> ChestForce(f.interactOffset, f.mult)]
            ELSE [left |-> IdleTarget(Rounded(f.time * 8, 10), f.mult),
                  right |-> IdleTarget(Rounded(f.time * 8, 10) + 100, f.mult)]
    IN  [sp EXCEPT !.leftChest = update([@ EXCEPT !.target = targets.left], f.deltaTime),
                   !.rightChest = update([@ EXCEPT !.target = targets.right], f.deltaTime)]

\* Lines 266-285: the chest springs get their targets and are updated.
ChestSprings(f, sp) ==
    LET targets ==
            IF f.isFrontView /\ f.isInteracting
            THEN [left |-> IF f.gesture = "INTERACT_LEFT"
                           THEN ChestForce(f.interactOffset, f.mult) ELSE 0,
                  right |-> IF f.gesture = "INTERACT_LEFT"
                            THEN 0 ELSE ChestForce(f.interactOffset, f.mult)]
            ELSE [left |-> IdleTarget(Rounded(f.time * 8, 10), f.mult),
                  right |-> IdleTarget(Rounded(f.time * 8, 10) + 100, f.mult)]
    IN  [sp EXCEPT !.leftChest = update([@ EXCEPT !.target = targets.left], f.deltaTime),
                   !.rightChest = update([@ EXCEPT !.target = targets.right], f.deltaTime)]

\* Lines 288-320: the breast joints.
BreastJoints(f, sp, r) ==
    LET l == BaseRotation.x + Rounded(sp.leftChest.value, 2)
                + (IF f.isFrontView /\ f.gesture = "INTERACT_LEFT"
                   THEN 50 * f.interactOffset.y ELSE 0)
        rr == BaseRotation.x + Rounded(sp.rightChest.value, 2)
                + (IF f.isFrontView /\ f.gesture = "INTERACT_RIGHT"
                   THEN 50 * f.interactOffset.y ELSE 0)
        r1 == IF "breastL" \in bones THEN [r EXCEPT !["breastL"].x = l] ELSE r
    IN  IF "breastR" \in bones THEN [r1 EXCEPT !["breastR"].x = rr] ELSE r1

\* Lines 323-334: the chest joint.
ChestJoint(f, r) ==
    IF "chest" \in bones
    THEN IF "breastL" \notin bones /\ "breastR" \notin bones
            /\ f.isFrontView /\ f.isInteracting
         THEN [r EXCEPT !["chest"].x = BaseRotation.x + 5 * f.interactOffset.y]
         ELSE [r EXCEPT !["chest"].x = BaseRotation.x - f.breathCycle]
    ELSE r

\* Mutant of HipSprings: each hand drives the hip spring of its own side.
HipSpringsSameSide(f, sp) ==
    LET l == update(sp.leftHip, f.deltaTime)
        r == update(sp.rightHip, f.deltaTime)
    IN  IF "hips" \in bones
        THEN [sp EXCEPT
                !.leftHip = [l EXCEPT !.target =
                                IF f.isLeftInteracting THEN HipForce(f.left, f.mult)
                                ELSE IdleTarget(f.time * 2, f.mult)],
                !.rightHip = [r EXCEPT !.target =
                                IF f.isRightInteracting THEN HipForce(f.right, f.mult)
                                ELSE IdleTarget(f.time * 2 + 200, f.mult)]]
        ELSE [sp EXCEPT !.rightHip = r, !.leftHip = l]

\* Lines 342-360: the hip springs are updated, then get their targets.
HipSprings(f, sp) ==
    LET l == update(sp.leftHip, f.deltaTime)
        r == update(sp.rightHip, f.deltaTime)
    IN  IF "hips" \in bones
        THEN [sp EXCEPT
                !.rightHip = [r EXCEPT !.target =
                                IF f.isLeftInteracting THEN HipForce(f.left, f.mult)
                                ELSE IdleTarget(f.time * 2 + 200, f.mult)],
                !.leftHip = [l EXCEPT !.target =
                                IF f.isRightInteracting THEN HipForce(f.right, f.mult)
                                ELSE IdleTarget(f.time * 2, f.mult)]]
        ELSE [sp EXCEPT !.rightHip = r, !.leftHip = l]

\* Lines 366-390 and 392-416: the hips tilt by (tiltX, tiltZ); without the
\* butt joint of that side the chest and the upper legs counter-rotate.
TiltHips(r, tiltX, tiltZ, butt) ==
    LET r1 == [r EXCEPT !["hips"].z = BaseRotation.z + tiltZ,
                        !["hips"].x = BaseRotation.x + tiltX]
        r2 == IF "chest" \in bones
              THEN [r1 EXCEPT !["chest"].z = BaseRotation.z - tiltZ,
                              !["chest"].x = BaseRotation.x - tiltX]
              ELSE r1
        r3 == IF "upperLegL" \in bones
              THEN [r2 EXCEPT !["upperLegL"].z = BaseRotation.z - tiltZ] ELSE r2
        r4 == IF "upperLegR" \in bones
              THEN [r3 EXCEPT !["upperLegR"].z = BaseRotation.z - tiltZ] ELSE r3
    IN  IF butt \notin bones THEN r4 ELSE r1

\* Lines 345-420: the hip joint.
HipJoint(f, r) ==
    IF "hips" \notin bones THEN r
    ELSE IF f.isLeftInteracting
    THEN LET mult == IF "buttL" \notin bones THEN 25 ELSE 10
         IN  TiltHips(r, Rounded(f.left.y * 5 * mult, 10),
                         Rounded(-f.left.x * 8 * mult, 10), "buttL")
    ELSE IF f.isRightInteracting
    THEN LET mult == IF "buttR" \notin bones THEN 25 ELSE 10
         IN  TiltHips(r, Rounded(f.right.y * 5 * mult, 10),
                         Rounded(f.right.x * 8 * mult, 10), "buttR")
    ELSE [r EXCEPT !["hips"].z = Lerp(@, BaseRotation.z, 10),
                   !["hips"].x = Lerp(@, BaseRotation.x, 10)]

\* Lines 423-441: the butt joints; leftHipValue and rightHipValue are what
\* the updates of the hip springs returned.
ButtJoints(f, sp, r) ==
    LET r1 == IF "buttL" \in bones
              THEN [r EXCEPT !["buttL"].x =
                       IF f.isRightInteracting
                       THEN BaseRotation.x + Rounded(sp.leftHip.value, 2) + 15 * f.right.y
                       ELSE Lerp(@, BaseRotation.x, 10)]
              ELSE r
    IN  IF "buttR" \in bones
        THEN [r1 EXCEPT !["buttR"].x =
                 IF f.isLeftInteracting
                 THEN BaseRotation.x + Rounded(sp.rightHip.value, 2) + 15 * f.left.y
                 ELSE Lerp(@, BaseRotation.x, 10)]
        ELSE r1

\* Lines 444-467: the upper legs.
UpperLegs(f, sp, r) ==
    LET r1 == IF "upperLegL" \notin bones THEN r
              ELSE IF "buttL" \notin bones /\ f.isRightInteracting
              THEN [r EXCEPT !["upperLegL"].z = BaseRotation.z
                                 + Rounded(sp.leftHip.value, 20)
                                 + Rounded(f.right.y * 8, 10),
                             !["upperLegL"].y = BaseRotation.y - f.right.x]
              ELSE [r EXCEPT !["upperLegL"].z = Lerp(@, BaseRotation.z, 10)]
    IN  IF "upperLegR" \notin bones THEN r1
        ELSE IF "buttR" \notin bones /\ f.isLeftInteracting
        THEN [r1 EXCEPT !["upperLegR"].z = BaseRotation.z
                            + Rounded(sp.rightHip.value, 20)
                            + Rounded(f.left.y * 8, 10),
                        !["upperLegR"].y = BaseRotation.y + f.left.x]
        ELSE [r1 EXCEPT !["upperLegR"].z = Lerp(@, BaseRotation.z, 10)]

\* ModelLoader's frame callback, for a model configuration without
\* rotation, with scale 1 and without invertRotation.
GroupAfterFrame(g) ==
    [x |-> Lerp(g.x, 5 * accumulatedRotation.y, 15),
     y |-> Lerp(g.y, -30 * accumulatedRotation.x, 15),
     scale |-> Lerp(g.scale, 15 * zoomFactor, 10)]

----------------------------------------------------------------------------
\* The state once HandController is mounted, the detector initialised and
\* the results callback registered; no result has been delivered yet.
ControllerInit ==
    /\ leftHand = Null /\ rightHand = Null
    /\ gesture = "IDLE"
    /\ zoomFactor = InitialZoom
    /\ rotationDelta = Zero2
    /\ leftChestOffset = Zero2 /\ rightChestOffset = Zero2
    /\ accumulatedRotation = Zero2
    /\ isModelLoaded = FALSE
    /\ prevLeftCentroid = Null /\ prevRightCentroid = Null /\ prevDist = Null
    /\ lastUpdateRef = 0
    /\ isActive = TRUE /\ hasReportedReady = FALSE
    /\ pending = Null
    /\ now = StartedAt
    /\ frames = 0
    /\ lastLeft = Null /\ lastRight = Null /\ lastPublishAt = Null

\* Initial state of Spec: the controller mounted, everything else at rest.
Init ==
    /\ ControllerInit /\ KeypointIdle /\ SpringIdle /\ CameraOn /\ SceneLoaded(Joints)
    /\ MountedReady /\ BoneIdle

\* Mutant of SetState: an offset is written only under its own INTERACT
\* gesture and otherwise left as it is in the store.
SetStateKeepingOffsets(d) ==
    /\ leftHand' = d.leftHand
    /\ rightHand' = d.rightHand
    /\ gesture' = d.currentGesture
    /\ zoomFactor' = d.newZoom
    /\ rotationDelta' = d.rotationDelta
    /\ leftChestOffset' = IF d.currentGesture = "INTERACT_LEFT"
                          THEN d.leftChestDelta ELSE leftChestOffset
    /\ rightChestOffset' = IF d.currentGesture = "INTERACT_RIGHT"
                           THEN d.rightChestDelta ELSE rightChestOffset

\* useStore.setState({ leftHand, rightHand, gesture, zoomFactor, ... })
SetState(d) ==
    /\ leftHand' = d.leftHand
    /\ rightHand' = d.rightHand
    /\ gesture' = d.currentGesture
    /\ zoomFactor' = d.newZoom
    /\ rotationDelta' = d.rotationDelta
    /\ leftChestOffset' = IF d.currentGesture = "INTERACT_LEFT"
                          THEN d.leftChestDelta ELSE Zero2
    /\ rightChestOffset' = IF d.currentGesture = "INTERACT_RIGHT"
                           THEN d.rightChestDelta ELSE Zero2

\* Mutant of Publish: applyRotationDelta is called before the throttle test.
PublishRotationUnthrottled(d, t) ==
    IF ThrottleOpen(t, lastUpdateRef)
    THEN /\ lastUpdateRef' = t
         /\ lastPublishAt' = Some(t)
         /\ IF d.currentGesture = "ROTATE"
            THEN /\ accumulatedRotation' =
                        applyRotationDelta(accumulatedRotation, d.rotationDelta)
                 /\ pending' = Some(d)
                 /\ UNCHANGED <<leftHand, rightHand, gesture, zoomFactor,
                                rotationDelta, leftChestOffset, rightChestOffset>>
            ELSE /\ SetState(d)
                 /\ UNCHANGED <<accumulatedRotation, pending>>
    ELSE /\ accumulatedRotation' =
                IF d.currentGesture = "ROTATE"
                THEN applyRotationDelta(accumulatedRotation, d.rotationDelta)
                ELSE accumulatedRotation
         /\ UNCHANGED <<leftHand, rightHand, gesture, zoomFactor, rotationDelta,
                        leftChestOffset, rightChestOffset,
                        lastUpdateRef, lastPublishAt, pending>>

\* Mutant of Publish: the zoom factor is written before the throttle test.
PublishZoomUnthrottled(d, t) ==
    IF ThrottleOpen(t, lastUpdateRef)
    THEN /\ lastUpdateRef' = t
         /\ lastPublishAt' = Some(t)
         /\ IF d.currentGesture = "ROTATE"
            THEN /\ accumulatedRotation' =
                        applyRotationDelta(accumulatedRotation, d.rotationDelta)
                 /\ pending' = Some(d)
                 /\ UNCHANGED <<leftHand, rightHand, gesture, zoomFactor,
                                rotationDelta, leftChestOffset, rightChestOffset>>
            ELSE /\ SetState(d)
                 /\ UNCHANGED <<accumulatedRotation, pending>>
    ELSE /\ zoomFactor' = d.newZoom
         /\ UNCHANGED <<leftHand, rightHand, gesture, rotationDelta,
                        leftChestOffset, rightChestOffset, accumulatedRotation,
                        lastUpdateRef, lastPublishAt, pending>>

\* Mutant of Publish: a suppressed callback restarts the throttle window.
PublishSlidingWindow(d, t) ==
    IF ThrottleOpen(t, lastUpdateRef)
    THEN /\ lastUpdateRef' = t
         /\ lastPublishAt' = Some(t)
         /\ IF d.currentGesture = "ROTATE"
            THEN /\ accumulatedRotation' =
                        applyRotationDelta(accumulatedRotation, d.rotationDelta)
                 /\ pending' = Some(d)
                 /\ UNCHANGED <<leftHand, rightHand, gesture, zoomFactor,
                                rotationDelta, leftChestOffset, rightChestOffset>>
            ELSE /\ SetState(d)
                 /\ UNCHANGED <<accumulatedRotation, pending>>
    ELSE /\ lastUpdateRef' = t
         /\ UNCHANGED <<storeVars, lastPublishAt, pending>>

\* The publication of decision d at time t (lines 193-210).  A ROTATE
\* decision makes two store updates: this step ends after the first,
\* applyRotationDelta, and PublishRotate makes the second, setState.
Publish(d, t) ==
    IF ThrottleOpen(t, lastUpdateRef)
    THEN /\ lastUpdateRef' = t
         /\ lastPublishAt' = Some(t)
         /\ IF d.currentGesture = "ROTATE"
            THEN /\ accumulatedRotation' =
                        applyRotationDelta(accumulatedRotation, d.rotationDelta)
                 /\ pending' = Some(d)
                 /\ UNCHANGED <<leftHand, rightHand, gesture, zoomFactor,
                                rotationDelta, leftChestOffset, rightChestOffset>>
            ELSE /\ SetState(d)
                 /\ UNCHANGED <<accumulatedRotation, pending>>
    ELSE UNCHANGED <<storeVars, lastUpdateRef, lastPublishAt, pending>>

\* Mutant of OnResults: the history refs are written only by a callback
\* that passes the throttle.
OnResultsThrottlingHistory(results, gap) ==
    /\ pending = Null
    /\ frames < MaxFrames
    /\ frames' = frames + 1
    /\ now' = now + gap
    /\ hasReportedReady' = TRUE
    /\ isModelLoaded' = IF hasReportedReady THEN isModelLoaded ELSE TRUE
    /\ UNCHANGED <<isActive, keypointVars, springVars, cameraVars, sceneVars,
                   mountVars, boneVars>>
    /\ IF ~isActive
       THEN UNCHANGED <<storeVars, refVars, historyVars, pending>>
       ELSE LET left == AssignHand(results, "Left", 1, Null)
                right == AssignHand(results, "Right", 1, Null)
                d == Decide(left, right, zoomFactor,
                            prevLeftCentroid, prevRightCentroid, prevDist)
                open == ThrottleOpen(now', lastUpdateRef)
            IN  /\ prevLeftCentroid' = IF open THEN d.prevLeftCentroid
                                       ELSE prevLeftCentroid
                /\ prevRightCentroid' = IF open THEN d.prevRightCentroid
                                        ELSE prevRightCentroid
                /\ prevDist' = IF open THEN d.prevDist ELSE prevDist
                /\ lastLeft' = left
                /\ lastRight' = right
                /\ Publish(d, now')

\* Mutant of OnResults: the callback does not test isActive.
OnResultsAfterCleanup(results, gap) ==
    /\ pending = Null
    /\ frames < MaxFrames
    /\ frames' = frames + 1
    /\ now' = now + gap
    /\ hasReportedReady' = TRUE
    /\ isModelLoaded' = IF hasReportedReady THEN isModelLoaded ELSE TRUE
    /\ UNCHANGED <<isActive, keypointVars, springVars, cameraVars, sceneVars,
                   mountVars, boneVars>>
    /\ LET left == AssignHand(results, "Left", 1, Null)
           right == AssignHand(results, "Right", 1, Null)
           d == Decide(left, right, zoomFactor,
                       prevLeftCentroid, prevRightCentroid, prevDist)
       IN  /\ prevLeftCentroid' = d.prevLeftCentroid
           /\ prevRightCentroid' = d.prevRightCentroid
           /\ prevDist' = d.prevDist
           /\ lastLeft' = left
           /\ lastRight' = right
           /\ Publish(d, now')

\* hands.onResults(callback): one detector result, `gap` ms after the last.
OnResults(results, gap) ==
    /\ pending = Null
    /\ frames < MaxFrames
    /\ frames' = frames + 1
    /\ now' = now + gap
    /\ hasReportedReady' = TRUE
    /\ isModelLoaded' = IF hasReportedReady THEN isModelLoaded ELSE TRUE
    /\ UNCHANGED <<isActive, keypointVars, springVars, cameraVars, sceneVars,
                   mountVars, boneVars>>
    /\ IF ~isActive
       THEN UNCHANGED <<storeVars, refVars, historyVars, pending>>
       ELSE LET left == AssignHand(results, "Left", 1, Null)
                right == AssignHand(results, "Right", 1, Null)
                d == Decide(left, right, zoomFactor,
                            prevLeftCentroid, prevRightCentroid, prevDist)
            IN  /\ prevLeftCentroid' = d.prevLeftCentroid
                /\ prevRightCentroid' = d.prevRightCentroid
                /\ prevDist' = d.prevDist
                /\ lastLeft' = left
                /\ lastRight' = right
                /\ Publish(d, now')

\* The rest of a ROTATE publication: the setState that follows
\* applyRotationDelta.
PublishRotate ==
    /\ pending # Null
    /\ pending' = Null
    /\ SetState(Val(pending))
    /\ UNCHANGED <<accumulatedRotation, isModelLoaded, refVars, historyVars,
                   isActive, hasReportedReady, now, frames,
                   keypointVars, springVars, cameraVars, sceneVars, mountVars,
                   boneVars>>

\* resetView(): the RESET button of StudioControls.
ResetView ==
    /\ pending = Null
    /\ accumulatedRotation' = Zero2
    /\ zoomFactor' = InitialZoom
    /\ UNCHANGED <<leftHand, rightHand, gesture, rotationDelta, leftChestOffset,
                   rightChestOffset, isModelLoaded, refVars, historyVars,
                   isActive, hasReportedReady, pending, now, frames,
                   keypointVars, springVars, cameraVars, sceneVars, mountVars,
                   boneVars>>

Next ==
    \/ \E results \in ResultSets, gap \in FrameGaps : OnResults(results, gap)
    \/ PublishRotate
    \/ ResetView

Spec == Init /\ [][Next]_vars

----------------------------------------------------------------------------
\* What the claims quantify over: the results a callback may be handed next.

\* The hands of each label a result may carry.
LeftHands == { Some(h) : h \in Hands("Left") }

RightHands == { Some(h) : h \in Hands("Right") }

\* What the callback would decide in the current state for these hands.
DecisionFor(left, right) ==
    Decide(left, right, zoomFactor, prevLeftCentroid, prevRightCentroid, prevDist)

HandsDistance(left, right) ==
    calculateDistance(Val(left).centroid, Val(right).centroid)

\* The callback that led to the current state published its decision.
JustPublished == lastPublishAt = Some(now) /\ pending = Null

----------------------------------------------------------------------------
\* C1: on every callback in which both a left and a right hand are present,
\* the computed gesture is IDLE, ZOOM_IN or ZOOM_OUT, never ROTATE or
\* INTERACT_*, whatever the hands' isGrabbing/isOpen flags; when there is no
\* previous distance or |dist - prevDist| <= 0.005 the result is IDLE with
\* rotation delta and both chest offsets {0,0}.  The same holds of what the
\* store shows while it holds two hands.
TwoHandsTakePriority ==
    /\ \A left \in LeftHands, right \in RightHands :
          LET d == DecisionFor(left, right)
              dist == HandsDistance(left, right)
          IN  /\ d.currentGesture \in {"IDLE", "ZOOM_IN", "ZOOM_OUT"}
              /\ (prevDist = Null \/ Abs(dist - Val(prevDist)) <= ZoomDeadZone)
                    => /\ d.currentGesture = "IDLE"
                       /\ d.rotationDelta = Zero2
                       /\ d.leftChestDelta = Zero2
                       /\ d.rightChestDelta = Zero2
    /\ (leftHand # Null /\ rightHand # Null)
          => /\ gesture \in {"IDLE", "ZOOM_IN", "ZOOM_OUT"}
             /\ leftChestOffset = Zero2 /\ rightChestOffset = Zero2

\* C1 witness: a published callback with a fist on the left and an open hand
\* on the right, two callbacks in a row, that came out IDLE.
TwoHandsIdleReached ==
    /\ JustPublished
    /\ frames >= 2
    /\ leftHand # Null /\ rightHand # Null
    /\ Val(leftHand).isGrabbing /\ Val(rightHand).isOpen
    /\ prevDist # Null
    /\ gesture = "IDLE"

\* C2: for each hand H, on a callback where H is the only hand present but
\* on the preceding callback H was absent or the other hand was present too,
\* the rotation delta and H's chest offset are {0,0}; and a previous centroid
\* that is kept is always H's centroid of the immediately preceding callback,
\* on which H was the only hand.
NoStaleCentroid ==
    /\ prevLeftCentroid # Null
          => /\ lastLeft # Null /\ lastRight = Null
             /\ Val(prevLeftCentroid) = Val(lastLeft).centroid
    /\ prevRightCentroid # Null
          => /\ lastRight # Null /\ lastLeft = Null
             /\ Val(prevRightCentroid) = Val(lastRight).centroid
    /\ (lastLeft = Null \/ lastRight # Null)
          => \A left \in LeftHands :
                LET d == DecisionFor(left, Null)
                IN  d.rotationDelta = Zero2 /\ d.leftChestDelta = Zero2
    /\ (lastRight = Null \/ lastLeft # Null)
          => \A right \in RightHands :
                LET d == DecisionFor(Null, right)
                IN  d.rotationDelta = Zero2 /\ d.rightChestDelta = Zero2

\* C2 witness: the store still shows the left hand alone at D; on the last
\* callback, not published, no hand was seen and the previous centroid was
\* cleared, so a left fist appearing at A next rotates by {0,0}.
HandLostAndCleared ==
    /\ frames >= 2
    /\ pending = Null
    /\ leftHand # Null /\ rightHand = Null
    /\ Val(leftHand).centroid = CentroidD
    /\ lastLeft = Null /\ lastRight = Null
    /\ prevLeftCentroid = Null
    /\ \E left \in LeftHands :
          /\ Val(left).isGrabbing
          /\ DecisionFor(left, Null).currentGesture = "ROTATE"
          /\ DecisionFor(left, Null).rotationDelta = Zero2

\* C3: in every store state leftChestOffset is {0,0} unless gesture is
\* INTERACT_LEFT, and rightChestOffset is {0,0} unless gesture is
\* INTERACT_RIGHT.
OffsetsZeroUnlessInteract ==
    /\ gesture # "INTERACT_LEFT" => leftChestOffset = Zero2
    /\ gesture # "INTERACT_RIGHT" => rightChestOffset = Zero2

\* C3 witness: a non-zero left offset is in the store (under INTERACT_LEFT).
LeftOffsetPublished ==
    /\ gesture = "INTERACT_LEFT"
    /\ leftChestOffset # Zero2
    /\ leftChestOffset.y # 0

\* C4: in every reachable store state 0.5 <= zoomFactor <= 5, and so is the
\* zoom every next callback would compute.
ZoomWithinBounds ==
    /\ ZoomMin <= zoomFactor /\ zoomFactor <= ZoomMax
    /\ \A left \in LeftHands \cup {Null}, right \in RightHands \cup {Null} :
          LET d == DecisionFor(left, right)
          IN  ZoomMin <= d.newZoom /\ d.newZoom <= ZoomMax

\* C4 witness: a ZOOM_OUT whose product fell below 0.5 was clamped to 0.5.
ZoomClampedLow ==
    /\ JustPublished
    /\ gesture = "ZOOM_OUT"
    /\ zoomFactor = ZoomMin

\* C5: for two consecutive callbacks that both have two hands, with delta =
\* (current distance) - (distance of the preceding callback): delta > 0.005
\* gives ZOOM_IN and min(5, max(0.5, zoomFactor * (1 + 2*delta))), never
\* smaller than the old zoomFactor; delta < -0.005 gives ZOOM_OUT and the
\* same formula, never larger than the old one.
ZoomFollowsDistance ==
    (lastLeft # Null /\ lastRight # Null)
       => \A left \in LeftHands, right \in RightHands :
             LET d == DecisionFor(left, right)
                 delta == HandsDistance(left, right) - HandsDistance(lastLeft, lastRight)
                 scaled == (zoomFactor * (1000 + 2 * delta)) \div 1000
                 expected == Min(ZoomMax, Max(ZoomMin, scaled))
             IN  /\ delta > ZoomDeadZone
                    => /\ d.currentGesture = "ZOOM_IN"
                       /\ d.newZoom = expected
                       /\ d.newZoom >= zoomFactor
                 /\ delta < -ZoomDeadZone
                    => /\ d.currentGesture = "ZOOM_OUT"
                       /\ d.newZoom = expected
                       /\ d.newZoom <= zoomFactor

\* C5 witness: a ZOOM_IN was published and raised the zoom factor.
ZoomInPublished ==
    /\ JustPublished
    /\ gesture = "ZOOM_IN"
    /\ zoomFactor > InitialZoom
    /\ zoomFactor < ZoomMax

\* The centroid delta of a hand that was also the only hand of the preceding
\* callback, {0,0} otherwise; `mine` and `other` are that callback's hands.
DeltaSince(hand, mine, other) ==
    IF mine # Null /\ other = Null
    THEN [x |-> Val(hand).centroid.x - Val(mine).centroid.x,
          y |-> Val(hand).centroid.y - Val(mine).centroid.y]
    ELSE Zero2

\* C6: when exactly one hand is present and isGrabbing, the gesture is
\* ROTATE; if that hand was also the only hand of the preceding callback the
\* rotation delta is {cx - px, 0.2 * (cy - py)}, otherwise {0,0}; both chest
\* offsets are {0,0} and zoomFactor is unchanged.
LoneFistRotates ==
    /\ \A left \in LeftHands :
          Val(left).isGrabbing =>
             LET d == DecisionFor(left, Null)
                 move == DeltaSince(left, lastLeft, lastRight)
             IN  /\ d.currentGesture = "ROTATE"
                 /\ d.rotationDelta.x = move.x
                 /\ 5 * d.rotationDelta.y = move.y
                 /\ d.leftChestDelta = Zero2 /\ d.rightChestDelta = Zero2
                 /\ d.newZoom = zoomFactor
    /\ \A right \in RightHands :
          Val(right).isGrabbing =>
             LET d == DecisionFor(Null, right)
                 move == DeltaSince(right, lastRight, lastLeft)
             IN  /\ d.currentGesture = "ROTATE"
                 /\ d.rotationDelta.x = move.x
                 /\ 5 * d.rotationDelta.y = move.y
                 /\ d.leftChestDelta = Zero2 /\ d.rightChestDelta = Zero2
                 /\ d.newZoom = zoomFactor

\* C6 witness: the right hand, alone at D on the preceding callback, is now
\* a fist alone at A, and its ROTATE is published with the damped delta.
RotateDeltaPublished ==
    /\ JustPublished
    /\ gesture = "ROTATE"
    /\ rightHand # Null /\ leftHand = Null
    /\ rotationDelta = [x |-> -800, y |-> -120]
    /\ leftChestOffset = Zero2 /\ rightChestOffset = Zero2

\* C7: when exactly one hand is present, not grabbing and isOpen, the
\* gesture is INTERACT_LEFT for the left hand and INTERACT_RIGHT for the
\* right; that side's chest offset is the undamped centroid delta (or {0,0}
\* without a previous centroid), the other side's offset and the rotation
\* delta are {0,0}.
LoneOpenHandInteracts ==
    /\ \A left \in LeftHands :
          (~Val(left).isGrabbing /\ Val(left).isOpen) =>
             LET d == DecisionFor(left, Null)
             IN  /\ d.currentGesture = "INTERACT_LEFT"
                 /\ d.leftChestDelta = DeltaSince(left, lastLeft, lastRight)
                 /\ d.rightChestDelta = Zero2
                 /\ d.rotationDelta = Zero2
    /\ \A right \in RightHands :
          (~Val(right).isGrabbing /\ Val(right).isOpen) =>
             LET d == DecisionFor(Null, right)
             IN  /\ d.currentGesture = "INTERACT_RIGHT"
                 /\ d.rightChestDelta = DeltaSince(right, lastRight, lastLeft)
                 /\ d.leftChestDelta = Zero2
                 /\ d.rotationDelta = Zero2

\* C7 witness: the right hand, alone at D on the preceding callback, is now
\* open and alone at B, and INTERACT_RIGHT is published with the full delta.
InteractRightPublished ==
    /\ JustPublished
    /\ gesture = "INTERACT_RIGHT"
    /\ rightHand # Null /\ leftHand = Null
    /\ rightChestOffset = [x |-> -794, y |-> -600]
    /\ leftChestOffset = Zero2
    /\ rotationDelta = Zero2

\* C8: accumulatedRotation changes only when a callback whose gesture is
\* ROTATE is published, and then by exactly that callback's rotationDelta
\* (the one the store then shows); any other callback, and any callback the
\* throttle suppresses, leaves it unchanged; only a view reset sets it back.
RotationAccumulatesOnlyOnRotate ==
    [][ /\ accumulatedRotation' # accumulatedRotation
           => \/ /\ frames' = frames
                 /\ pending = Null /\ pending' = Null
                 /\ accumulatedRotation' = Zero2
              \/ /\ frames' = frames + 1
                 /\ now' - lastUpdateRef > ThrottleMs
                 /\ lastPublishAt' = Some(now')
                 /\ pending' # Null
                 /\ Val(pending').currentGesture = "ROTATE"
                 /\ accumulatedRotation'.x =
                       accumulatedRotation.x + Val(pending').rotationDelta.x
                 /\ accumulatedRotation'.y =
                       accumulatedRotation.y + Val(pending').rotationDelta.y
        /\ (pending # Null /\ pending' = Null)
           => /\ gesture' = "ROTATE"
              /\ rotationDelta' = Val(pending).rotationDelta
              /\ accumulatedRotation' = accumulatedRotation
      ]_vars

\* C8 witness: one ROTATE publication has put its delta, and nothing else,
\* into accumulatedRotation.
RotationAccumulated ==
    /\ JustPublished
    /\ gesture = "ROTATE"
    /\ rotationDelta # Zero2
    /\ accumulatedRotation = rotationDelta

\* C9: two successive publications by the callback are more than 32 ms
\* apart, and a callback that runs 32 ms or less after the last publication
\* writes nothing to the store.
PublicationsThrottled ==
    [][ /\ lastPublishAt' # lastPublishAt
           => \/ lastPublishAt = Null
              \/ Val(lastPublishAt') - Val(lastPublishAt) > ThrottleMs
        /\ (frames' = frames + 1 /\ lastPublishAt # Null
              /\ now' - Val(lastPublishAt) <= ThrottleMs)
           => /\ UNCHANGED storeVars
              /\ UNCHANGED <<isModelLoaded, lastPublishAt, pending>>
      ]_vars

\* C9 witness: a callback ran exactly 32 ms after the last publication, with
\* hands the store does not show, and was suppressed.
SuppressedAtLimit ==
    /\ lastPublishAt # Null
    /\ now - Val(lastPublishAt) = ThrottleMs
    /\ pending = Null
    /\ lastLeft # leftHand

\* C10: every published callback writes all fields of its decision in one
\* store update: the update that adds a callback's delta to
\* accumulatedRotation also sets gesture to ROTATE and rotationDelta to that
\* delta, so no store state has the increment under the previous
\* publication's gesture and rotationDelta.
PublishedInOneUpdate ==
    [][ (frames' = frames + 1 /\ accumulatedRotation' # accumulatedRotation)
           => /\ gesture' = "ROTATE"
              /\ rotationDelta'.x = accumulatedRotation'.x - accumulatedRotation.x
              /\ rotationDelta'.y = accumulatedRotation'.y - accumulatedRotation.y
      ]_vars

----------------------------------------------------------------------------
\* KeypointSpec: GestureRecognizer applied to one landmark array.

KeypointInit ==
    /\ ControllerInit /\ SpringIdle /\ CameraOn /\ SceneLoaded(Joints)
    /\ MountedReady /\ BoneIdle
    /\ keypoints \in KeypointArrays
    /\ handedness \in Labels
    /\ analysis = Null

\* One call of each static operation on the array.
Analyze ==
    /\ analysis = Null
    /\ analysis' = Some([isPinching |-> isPinching(keypoints),
                         isGrabbing |-> isGrabbing(keypoints),
                         isOpen |-> isOpen(keypoints),
                         hand |-> analyzeHand(keypoints, handedness)])
    /\ UNCHANGED <<keypoints, handedness, controllerVars, springVars,
                   cameraVars, sceneVars, mountVars,
                   boneVars>>

KeypointNext == Analyze

KeypointSpec == KeypointInit /\ [][KeypointNext]_vars

----------------------------------------------------------------------------
\* SpringSpec: one SpringSolver object and a caller that sets its target
\* while it rests and then calls update with a fixed deltaTime.

SpringInit ==
    /\ ControllerInit /\ KeypointIdle /\ CameraOn /\ SceneLoaded(Joints)
    /\ MountedReady /\ BoneIdle
    /\ \E v \in SpringValues, p \in SpringParams :
          /\ spring = NewSpring(v, p[1], p[2], p[3])
          /\ restValue = v
    /\ springDt \in SpringDts
    /\ returned = Null
    /\ springOp = "new"
    /\ springTime = 0

\* spring.target = t
SetTarget(t) ==
    /\ springOp \in {"new", "reset"}
    /\ t # spring.target
    /\ spring' = [spring EXCEPT !.target = t]
    /\ springOp' = "target"
    /\ springTime' = 0
    /\ UNCHANGED <<springDt, returned, restValue>>
    /\ UNCHANGED <<controllerVars, keypointVars, cameraVars, sceneVars, mountVars,
                   boneVars>>

\* spring.update(springDt)
Update ==
    /\ spring' = update(spring, springDt)
    /\ returned' = Some(spring'.value)
    /\ springOp' = "update"
    /\ springTime' = Min(springTime + Min(springDt, MaxDeltaTime), 2000)
    /\ UNCHANGED <<springDt, restValue>>
    /\ UNCHANGED <<controllerVars, keypointVars, cameraVars, sceneVars, mountVars,
                   boneVars>>

\* spring.reset(v)
Reset(v) ==
    /\ spring' = reset(spring, v)
    /\ springOp' = "reset"
    /\ restValue' = v
    /\ springTime' = 0
    /\ UNCHANGED <<springDt, returned>>
    /\ UNCHANGED <<controllerVars, keypointVars, cameraVars, sceneVars, mountVars,
                   boneVars>>

SpringNext ==
    \/ \E t \in SpringValues : SetTarget(t)
    \/ Update
    \/ \E v \in SpringValues : Reset(v)

SpringSpec == SpringInit /\ [][SpringNext]_vars

----------------------------------------------------------------------------
\* SceneSpec: the detector callback, the view reset, the camera switch, the
\* physics slider and the render loop, for a mounted HandController with an
\* initialised camera and a loaded model.

\* Rigs: every combination of chest and breast joints, on a lower body with
\* hips and upper legs but no butt joints; and the complete rig.
RigJointSets ==
    { upper \cup {"hips", "upperLegL", "upperLegR"} :
        upper \in SUBSET {"chest", "breastL", "breastR"} } \cup { Joints }

\* Detector results of SceneSpec: no hand, or one hand.
SceneResults ==
    { <<>> } \cup
    { <<[label |-> "Left", hand |-> Some(h)]>> : h \in Hands("Left") } \cup
    { <<[label |-> "Right", hand |-> Some(h)]>> :
        h \in { g \in Hands("Right") : ~g.isGrabbing } }

\* Milliseconds between two rendered frames.
TickGaps == {16}

\* Positions of the physics slider.
Intensities == {500, 1000}

SceneInit ==
    /\ ControllerInit /\ KeypointIdle /\ SpringIdle /\ CameraOn /\ MountedReady
    /\ BoneIdle
    /\ \E b \in RigJointSets : SceneLoaded(b)

\* A detector result while the camera is running.
SceneResult(results, gap) == cameraRunning /\ OnResults(results, gap)

\* Mutant of SetCameraActive: switching the camera off also publishes the
\* IDLE gesture.
SetCameraActiveResetting(active) ==
    /\ pending = Null
    /\ active # isCameraActive
    /\ isCameraActive' = active
    /\ cameraRunning' = active
    /\ IF active
       THEN UNCHANGED <<leftHand, rightHand, gesture>>
       ELSE leftHand' = Null /\ rightHand' = Null /\ gesture' = "IDLE"
    /\ UNCHANGED <<zoomFactor, rotationDelta, leftChestOffset,
                   rightChestOffset, accumulatedRotation, isModelLoaded,
                   refVars, historyVars, isActive, hasReportedReady, pending,
                   now, frames, keypointVars, springVars, sceneVars, mountVars,
                   boneVars>>

\* setCameraActive(active) and the isCameraActive effect it triggers.
SetCameraActive(active) ==
    /\ pending = Null
    /\ active # isCameraActive
    /\ isCameraActive' = active
    /\ cameraRunning' = active
    /\ IF active
       THEN UNCHANGED <<leftHand, rightHand>>
       ELSE leftHand' = Null /\ rightHand' = Null
    /\ UNCHANGED <<gesture, zoomFactor, rotationDelta, leftChestOffset,
                   rightChestOffset, accumulatedRotation, isModelLoaded,
                   refVars, historyVars, isActive, hasReportedReady, pending,
                   now, frames, keypointVars, springVars, sceneVars, mountVars,
                   boneVars>>

\* setMovementIntensity(v)
SetMovementIntensity(v) ==
    /\ pending = Null
    /\ v # movementIntensity
    /\ movementIntensity' = v
    /\ UNCHANGED <<bones, rotation, springs, group, prevTime, clock, ticks>>
    /\ UNCHANGED <<controllerVars, keypointVars, springVars, cameraVars,
                   mountVars, boneVars>>

\* The physics slider is moved before the first detector result and the
\* first rendered frame.
SliderMoved(v) == frames = 0 /\ ticks = 0 /\ SetMovementIntensity(v)

\* One rendered frame, dt ms after the last: the frame callbacks of
\* RigController and ModelLoader.
RenderTick(dt) ==
    /\ pending = Null
    /\ ticks < MaxTicks
    /\ LET f == FrameOf(clock + dt)
           sp1 == ChestSprings(f, springs)
           r1 == BreastJoints(f, sp1, rotation)
           r2 == ChestJoint(f, r1)
           sp2 == HipSprings(f, sp1)
           r3 == HipJoint(f, r2)
           r4 == ButtJoints(f, sp2, r3)
       IN  /\ springs' = sp2
           /\ rotation' = UpperLegs(f, sp2, r4)
    /\ group' = GroupAfterFrame(group)
    /\ clock' = clock + dt
    /\ prevTime' = clock + dt
    /\ ticks' = ticks + 1
    /\ UNCHANGED <<movementIntensity, bones>>
    /\ UNCHANGED <<controllerVars, keypointVars, springVars, cameraVars,
                   mountVars, boneVars>>

SceneNext ==
    \/ \E results \in SceneResults, gap \in {33} : SceneResult(results, gap)
    \/ PublishRotate
    \/ ResetView
    \/ \E active \in BOOLEAN : SetCameraActive(active)
    \/ \E v \in Intensities : SliderMoved(v)
    \/ \E dt \in TickGaps : RenderTick(dt)

SceneSpec == SceneInit /\ [][SceneNext]_vars

----------------------------------------------------------------------------
\* Claims about GestureRecognizer (KeypointSpec).

\* What the analysed array is to the operations.
Undersized == keypoints = Null \/ Len(Val(keypoints)) < REQUIRED_KEYPOINTS

\* Landmark i of the analysed array is undefined.
Absent(i) == At(Val(keypoints), i) = Null

\* Finger f = <<tip, pip>> has the tip nearer the wrist than the PIP joint.
TipNearer(f) ==
    calculateDistance(Val(At(Val(keypoints), f[1])), Val(At(Val(keypoints), WRIST)))
        < calculateDistance(Val(At(Val(keypoints), f[2])), Val(At(Val(keypoints), WRIST)))

\* Finger f = <<tip, pip>> has the tip farther from the wrist than the PIP.
TipFarther(f) ==
    calculateDistance(Val(At(Val(keypoints), f[1])), Val(At(Val(keypoints), WRIST)))
        > calculateDistance(Val(At(Val(keypoints), f[2])), Val(At(Val(keypoints), WRIST)))

\* C12: for a missing array and for every array of fewer than 21 entries,
\* isPinching, isGrabbing and isOpen return false and analyzeHand returns
\* null.
UndersizedFailsClosed ==
    (analysis # Null /\ Undersized) =>
        /\ ~Val(analysis).isPinching
        /\ ~Val(analysis).isGrabbing
        /\ ~Val(analysis).isOpen
        /\ Val(analysis).hand = Null

\* C12 witness: a fist of 20 landmarks, all present, thumb on the index
\* tip, has been analysed.
TwentyLandmarksAnalysed ==
    /\ analysis # Null
    /\ keypoints = Some(HandArray(REQUIRED_KEYPOINTS - 1, [f \in 1..4 |-> "curled"], TRUE))
    /\ Val(analysis).hand = Null

\* C13 (as claimed): in an array of 21 or more entries, an undefined
\* landmark among those an operation reads makes that operation return
\* false (isPinching: 4, 8; isGrabbing and isOpen: 0 and the tips and PIPs)
\* or null (analyzeHand: 0, 5, 17).
AbsentLandmarkFailsClosed ==
    (analysis # Null /\ ~Undersized) =>
        /\ (Absent(THUMB_TIP) \/ Absent(INDEX_TIP)) => ~Val(analysis).isPinching
        /\ (Absent(WRIST) \/ \E f \in Fingers : Absent(f[1]) \/ Absent(f[2])) =>
                (~Val(analysis).isGrabbing /\ ~Val(analysis).isOpen)
        /\ (Absent(0) \/ Absent(5) \/ Absent(17)) => Val(analysis).hand = Null

\* C14: with every read landmark present, isGrabbing is true iff at least 3
\* of the 4 fingers have the tip nearer the wrist than the PIP, and isOpen
\* iff at least 3 have it farther.
ThreeOfFourMajority ==
    (/\ analysis # Null
     /\ ~Undersized
     /\ ~Absent(WRIST)
     /\ \A f \in Fingers : ~Absent(f[1]) /\ ~Absent(f[2])) =>
        /\ Val(analysis).isGrabbing
              <=> Cardinality({ f \in Fingers : TipNearer(f) }) >= 3
        /\ Val(analysis).isOpen
              <=> Cardinality({ f \in Fingers : TipFarther(f) }) >= 3

\* C14 witness: exactly two fingers are curled and two extended, and the
\* hand is neither a fist nor open.
TwoCurledTwoExtended ==
    /\ analysis # Null
    /\ keypoints = Some(HandArray(REQUIRED_KEYPOINTS,
                          [f \in 1..4 |-> IF f <= 2 THEN "curled" ELSE "extended"],
                          FALSE))
    /\ ~Val(analysis).isGrabbing
    /\ ~Val(analysis).isOpen

\* C15: analyzeHand returns null iff the array is missing or undersized or
\* landmark 0, 5 or 17 is undefined; otherwise the Hand has the given
\* handedness and keypoints, the flags the three predicates return for the
\* same array, and the mean of landmarks 0, 5 and 17 as centroid.
AnalyzeHandResult ==
    analysis # Null =>
        LET h == Val(analysis).hand
            k == Val(keypoints)
        IN  /\ h = Null <=> (Undersized \/ Absent(0) \/ Absent(5) \/ Absent(17))
            /\ h # Null =>
                 /\ Val(h).handedness = handedness
                 /\ Val(h).keypoints = k
                 /\ Val(h).isPinching = Val(analysis).isPinching
                 /\ Val(h).isGrabbing = Val(analysis).isGrabbing
                 /\ Val(h).isOpen = Val(analysis).isOpen
                 /\ Val(h).centroid =
                       [x |-> (Val(k[1]).x + Val(k[6]).x + Val(k[18]).x) \div 3,
                        y |-> (Val(k[1]).y + Val(k[6]).y + Val(k[18]).y) \div 3,
                        z |-> (Val(k[1]).z + Val(k[6]).z + Val(k[18]).z) \div 3]

\* C15 witness: a right hand with an unread landmark undefined yields a
\* Hand whose centroid is (0.51, 0.71, 0).
HandWithCentroid ==
    /\ analysis # Null
    /\ handedness = "Right"
    /\ ~Undersized
    /\ Absent(9)
    /\ Val(analysis).hand # Null
    /\ Val(Val(analysis).hand).centroid = [x |-> 510, y |-> 710, z |-> 0]

----------------------------------------------------------------------------
\* Claims about SpringSolver (SpringSpec).

\* C16: update(dt) advances the velocity by the acceleration
\* (-stiffness * (value - target) - damping * velocity) / mass times
\* safeDt = min(dt, 0.05), then the value by the new velocity times safeDt,
\* returns the new value and leaves target, stiffness, damping and mass as
\* they are; so every dt >= 0.05 gives the state update(0.05) gives.
UpdateIntegrates ==
    [][ springOp' = "update" =>
          LET safeDt == IF springDt < MaxDeltaTime THEN springDt ELSE MaxDeltaTime
              acceleration == Rounded((-spring.stiffness * (spring.value - spring.target))
                                        - spring.damping * spring.velocity, spring.mass)
              velocity == spring.velocity + Rounded(acceleration * safeDt, 1000)
          IN  /\ spring'.velocity = velocity
              /\ spring'.value = spring.value + Rounded(velocity * safeDt, 1000)
              /\ returned' = Some(spring'.value)
              /\ spring'.target = spring.target
              /\ spring'.stiffness = spring.stiffness
              /\ spring'.damping = spring.damping
              /\ spring'.mass = spring.mass
              /\ \A dt \in {MaxDeltaTime, MaxDeltaTime + 1, 1000} :
                    update(spring, dt) = update(spring, MaxDeltaTime)
      ]_vars

\* C16 witness: the first update(1000) of a default spring released at 0
\* towards 1 has moved it to 0.3 with velocity 6, as update(0.05) does.
ClampedStepTaken ==
    /\ springOp = "update"
    /\ springDt = 1000
    /\ spring = [value |-> 3000, velocity |-> 60000, target |-> 10000,
                 stiffness |-> DefaultStiffness, damping |-> DefaultDamping,
                 mass |-> DefaultMass]
    /\ returned = Some(3000)

\* C17: after the constructor and after reset(v) the value and the target
\* are the given value and the velocity is 0; reset leaves stiffness,
\* damping and mass as they are; and an update that follows either of them
\* immediately returns that value and changes nothing.
RestIsFixedPoint ==
    [][ /\ springOp \in {"new", "reset"} =>
              /\ spring.value = restValue
              /\ spring.target = restValue
              /\ spring.velocity = 0
        /\ springOp' = "reset" =>
              /\ spring'.stiffness = spring.stiffness
              /\ spring'.damping = spring.damping
              /\ spring'.mass = spring.mass
        /\ (springOp \in {"new", "reset"} /\ springOp' = "update") =>
              /\ spring' = spring
              /\ returned' = Some(restValue)
      ]_vars

\* C17 witness: a spring that update() had moved elsewhere has been reset
\* and rests at the reset value.
ResetFromMotion ==
    /\ springOp = "reset"
    /\ returned # Null
    /\ Val(returned) # restValue
    /\ spring.value = restValue
    /\ spring.target = restValue
    /\ spring.velocity = 0

\* A default spring released from rest at 0 towards the target 1.
ReleasedTowardsOne ==
    /\ restValue = 0
    /\ spring.target = 10000
    /\ spring.stiffness = DefaultStiffness
    /\ spring.damping = DefaultDamping
    /\ spring.mass = DefaultMass

\* C18: a default spring released at 0 towards 1 and updated with a fixed
\* dt (0.005 .. 0.05, or 1000) is never farther from the target than at
\* the start, and from 1 simulated second on it stays within 1% of it.
SettlesNearTarget ==
    ReleasedTowardsOne =>
        /\ Abs(spring.value - spring.target) <= 10000
        /\ springTime >= 1000 => Abs(spring.value - spring.target) <= 100

\* C18 witness: the spring has been updated with dt = 1000 for 2 simulated
\* seconds and is within 1% of the target.
SettledUnderLongFrames ==
    /\ ReleasedTowardsOne
    /\ springOp = "update"
    /\ springDt = 1000
    /\ springTime = 2000
    /\ Abs(spring.value - spring.target) <= 100

----------------------------------------------------------------------------
\* Claims about the store's writers and the rig driver (SceneSpec).

\* The step is a store update of the detector callback: onResults itself,
\* or the setState that completes its ROTATE publication.
CallbackStep == frames' = frames + 1 \/ pending # Null

\* The step changes nothing in the store but what resetView() sets.
ResetStep ==
    /\ accumulatedRotation' = Zero2
    /\ zoomFactor' = InitialZoom
    /\ UNCHANGED <<leftHand, rightHand, gesture, rotationDelta,
                   leftChestOffset, rightChestOffset>>

\* The step switches the camera off and changes nothing in the store but
\* the two hands, which become null.
CameraOffStep ==
    /\ isCameraActive /\ ~isCameraActive'
    /\ leftHand' = Null /\ rightHand' = Null
    /\ UNCHANGED <<gesture, rotationDelta, accumulatedRotation, zoomFactor,
                   leftChestOffset, rightChestOffset>>

\* C11 (as claimed): the hand-derived store fields are changed only by the
\* detector callback and, for rotation and zoom, by the view reset; a
\* rendered frame changes none of them.
OnlyCallbackAndResetWrite ==
    [][ /\ storeVars' # storeVars => (CallbackStep \/ ResetStep)
        /\ ticks' # ticks => storeVars' = storeVars
      ]_vars

\* C11 (amended): the hand-derived store fields are changed only by the
\* detector callback, by the view reset (rotation and zoom) and by
\* switching the camera off, which sets leftHand and rightHand to null; a
\* rendered frame changes none of them.
OnlyCallbackResetAndCameraWrite ==
    [][ /\ storeVars' # storeVars => (CallbackStep \/ ResetStep \/ CameraOffStep)
        /\ ticks' # ticks => storeVars' = storeVars
      ]_vars

\* C11 witness: the camera is off and both hands are null while the store
\* still holds the INTERACT_LEFT gesture the callback published with a left
\* hand, and a frame has been rendered.
HandsClearedByCameraOff ==
    /\ ~isCameraActive
    /\ leftHand = Null /\ rightHand = Null
    /\ gesture = "INTERACT_LEFT"
    /\ leftChestOffset # Zero2
    /\ ticks > 0

\* C19 (as claimed): every rendered frame sets a found chest joint to its
\* initial x rotation minus the breathing term sin(1.2 t) * 0.02 *
\* movementIntensity, whatever the gesture and the view.
BreathingAlwaysApplied ==
    [][ (ticks' = ticks + 1 /\ "chest" \in bones) =>
            rotation'["chest"].x =
                BaseRotation.x - BreathCycle(clock', movementIntensity)
      ]_vars

\* C20 (as claimed): in front view, an INTERACT gesture of a side whose
\* breast joint was not found moves the chest joint, if there is one, by
\* the offset of that side.
MissingBreastFallsBackToChest ==
    [][ (/\ ticks' = ticks + 1
         /\ "chest" \in bones
         /\ IsFrontView(accumulatedRotation)
         /\ \/ gesture = "INTERACT_LEFT" /\ "breastL" \notin bones
            \/ gesture = "INTERACT_RIGHT" /\ "breastR" \notin bones) =>
            rotation'["chest"].x =
                BaseRotation.x + 5 * (IF gesture = "INTERACT_LEFT"
                                      THEN leftChestOffset.y
                                      ELSE rightChestOffset.y)
      ]_vars

----------------------------------------------------------------------------
\* Further claims about the detector callback (Spec).

\* The entries of a result that carry the label `label`.
EntriesOf(results, label) ==
    { i \in DOMAIN results : results[i].label = label }

\* What a result holds for `label`: the analysed hand of its one entry with
\* that label, Null when it has no such entry.
HandIn(results, label) ==
    IF EntriesOf(results, label) = {} THEN Null
    ELSE results[CHOOSE i \in EntriesOf(results, label) : TRUE].hand

\* Results with at most one entry for each of the two labels.
PlainResults ==
    { results \in ResultSets :
        \A label \in Labels : Cardinality(EntriesOf(results, label)) <= 1 }

RoutedByLabel ==
    \A results \in PlainResults :
        /\ AssignHand(results, "Left", 1, Null) = HandIn(results, "Left")
        /\ AssignHand(results, "Right", 1, Null) = HandIn(results, "Right")

CentroidIfAlone(hand, other) ==
    IF hand # Null /\ other = Null THEN Some(Val(hand).centroid) ELSE Null

DistanceIfBoth(left, right) ==
    IF left # Null /\ right # Null THEN Some(HandsDistance(left, right)) ELSE Null

\* The last callback ran, got past the isActive test and was suppressed by
\* the throttle.
JustSuppressed ==
    /\ frames > 0 /\ isActive
    /\ lastLeft # Null \/ lastRight # Null \/ lastPublishAt # Null
    /\ lastPublishAt # Some(now)

\* C25: after every callback, published or suppressed by the throttle,
\* prevLeftCentroid, prevRightCentroid and prevDist are what the hands of
\* that callback alone determine; so after a suppressed callback the delta
\* of the next one is measured from the suppressed callback's centroid, not
\* from the centroid of the last published hands.
HistoryFollowsEveryCallback ==
    /\ prevLeftCentroid = CentroidIfAlone(lastLeft, lastRight)
    /\ prevRightCentroid = CentroidIfAlone(lastRight, lastLeft)
    /\ prevDist = DistanceIfBoth(lastLeft, lastRight)
    /\ (JustSuppressed /\ lastLeft # Null /\ lastRight = Null) =>
          \A left \in LeftHands :
             LET d == DecisionFor(left, Null)
                 dx == Val(left).centroid.x - Val(lastLeft).centroid.x
                 dy == Val(left).centroid.y - Val(lastLeft).centroid.y
             IN  /\ Val(left).isGrabbing => d.rotationDelta.x = dx
                 /\ (~Val(left).isGrabbing /\ Val(left).isOpen) =>
                        d.leftChestDelta = [x |-> dx, y |-> dy]

\* C25 witness: the store shows the left hand alone at D, as published; a
\* callback 16 ms later, suppressed, saw it alone at B, and B is the
\* previous centroid from which the next delta is measured.
HistoryAheadOfStore ==
    /\ JustSuppressed
    /\ pending = Null
    /\ leftHand # Null /\ Val(leftHand).centroid = CentroidD
    /\ lastLeft # Null /\ Val(lastLeft).centroid = CentroidB
    /\ lastRight = Null /\ rightHand = Null
    /\ prevLeftCentroid = Some(CentroidB)
    /\ now - Val(lastPublishAt) <= ThrottleMs

\* C30: when the preceding callback had fewer than two hands (or there was
\* none), prevDist is null and a callback with both hands present emits no
\* zoom gesture and leaves zoomFactor as it is; a zoom gesture needs the
\* preceding callback to have had both hands too; and every two-hand
\* callback, inside the dead zone or not, stores its distance as prevDist.
ZoomNeedsTwoInARow ==
    /\ (lastLeft = Null \/ lastRight = Null) =>
          /\ prevDist = Null
          /\ \A left \in LeftHands, right \in RightHands :
                LET d == DecisionFor(left, right)
                IN  /\ d.currentGesture = "IDLE"
                    /\ d.newZoom = zoomFactor
    /\ \A left \in LeftHands, right \in RightHands :
          LET d == DecisionFor(left, right)
          IN  /\ d.currentGesture \in {"ZOOM_IN", "ZOOM_OUT"} =>
                    (lastLeft # Null /\ lastRight # Null)
              /\ d.prevDist = Some(HandsDistance(left, right))
    /\ (lastLeft # Null /\ lastRight # Null) =>
          prevDist = Some(HandsDistance(lastLeft, lastRight))
    /\ gesture \in {"ZOOM_IN", "ZOOM_OUT"} => frames >= 2

\* C30 witness: after a callback with the left hand alone, the first
\* callback with both hands, 1001 apart, has been published: no zoom
\* gesture, the zoom factor as before, and the distance kept as prevDist.
FirstTwoHandCallbackIdle ==
    /\ JustPublished
    /\ frames = 2
    /\ leftHand # Null /\ rightHand # Null
    /\ gesture = "IDLE"
    /\ zoomFactor = InitialZoom
    /\ prevDist = Some(HandsDistance(leftHand, rightHand))
    /\ Val(prevDist) > 1000
    /\ prevLeftCentroid = Null /\ prevRightCentroid = Null

----------------------------------------------------------------------------
\* Further claims about the store under the camera switch (SceneSpec).

\* C26 (as claimed): in every store state the gesture agrees with the
\* stored hands: ROTATE with exactly one hand, INTERACT_LEFT with the left
\* hand and no right hand, INTERACT_RIGHT with the right hand and no left
\* hand, ZOOM_IN and ZOOM_OUT with both hands.
GestureMatchesHands ==
    /\ gesture = "ROTATE" => ((leftHand # Null) # (rightHand # Null))
    /\ gesture = "INTERACT_LEFT" => (leftHand # Null /\ rightHand = Null)
    /\ gesture = "INTERACT_RIGHT" => (rightHand # Null /\ leftHand = Null)
    /\ gesture \in {"ZOOM_IN", "ZOOM_OUT"} => (leftHand # Null /\ rightHand # Null)

----------------------------------------------------------------------------
\* The life cycle of HandController (MountSpec): the mounting effect and its
\* cleanup, the camera effect, and the detector singleton getOrCreateHands.
\*
\* A promise is named by the number of the Hands instance it was made for:
\* initializationPromise of instance i, or the promise an async call returns
\* for the cached instance i; both are read from instances[i].promise.  A
\* continuation after an await is a step of its own (HandsArrive,
\* CameraStartSettles), taken once the awaited promise has settled.  The
\* 15 s loadingTimeout has no firing step: the promise the effect awaits
\* settles within the 10 s of getOrCreateHands, and the continuation clears
\* the timer (line 83).

\* Times HandController is mounted (React Strict Mode mounts it twice).
MaxMounts == 2

moduleVars == <<globalHandsInstance, isInitializing, initializationPromise>>

\* What no step of the life cycle but a fresh mount writes.
callbackVars == <<gesture, zoomFactor, rotationDelta, leftChestOffset,
                  rightChestOffset, accumulatedRotation, historyVars, pending,
                  now, frames>>

restVars == <<keypointVars, springVars, sceneVars, boneVars>>

\* Detector results of MountSpec: no hand, or an open left hand alone.
MountResults ==
    { <<>>,
      <<[label |-> "Left", hand |-> Some(HandOf("Left", CentroidB, FALSE, TRUE))]>> }

\* The page loaded, HandController not yet mounted.
MountInit ==
    /\ leftHand = Null /\ rightHand = Null
    /\ gesture = "IDLE"
    /\ zoomFactor = InitialZoom
    /\ rotationDelta = Zero2
    /\ leftChestOffset = Zero2 /\ rightChestOffset = Zero2
    /\ accumulatedRotation = Zero2
    /\ isModelLoaded = FALSE
    /\ prevLeftCentroid = Null /\ prevRightCentroid = Null /\ prevDist = Null
    /\ lastUpdateRef = 0
    /\ isActive = FALSE /\ hasReportedReady = FALSE
    /\ pending = Null
    /\ now = StartedAt
    /\ frames = 0
    /\ lastLeft = Null /\ lastRight = Null /\ lastPublishAt = Null
    /\ isCameraActive = TRUE /\ cameraRunning = FALSE
    /\ globalHandsInstance = Null
    /\ isInitializing = FALSE
    /\ initializationPromise = Null
    /\ instances = <<>>
    /\ handsRef = Null /\ cameraRef = Null
    /\ pc = "idle"
    /\ awaited = Null
    /\ loadingTimeout = "none"
    /\ stale = [hands |-> {}, camera |-> FALSE]
    /\ mounts = 0
    /\ sent = 0
    /\ KeypointIdle /\ SpringIdle /\ SceneLoaded(Joints) /\ BoneIdle

\* getOrCreateHands(), up to the promise it returns (lines 12-22, 51).
getOrCreateHands ==
    IF globalHandsInstance # Null
    THEN /\ awaited' = globalHandsInstance
         /\ UNCHANGED <<moduleVars, instances>>
    ELSE IF isInitializing /\ initializationPromise # Null
    THEN /\ awaited' = initializationPromise
         /\ UNCHANGED <<moduleVars, instances>>
    ELSE /\ isInitializing' = TRUE
         /\ instances' = Append(instances, NewHands)
         /\ initializationPromise' = Some(Len(instances) + 1)
         /\ awaited' = Some(Len(instances) + 1)
         /\ UNCHANGED globalHandsInstance

\* The mounting effect up to its first await (lines 69-81).  A fresh mount
\* is a new component with new refs; otherwise the effect runs again on the
\* same component, as under Strict Mode.
Mount(fresh) ==
    /\ ~isActive /\ pc = "idle"
    /\ mounts < MaxMounts
    /\ pending = Null /\ sent = frames
    /\ isActive' = TRUE
    /\ mounts' = mounts + 1
    /\ loadingTimeout' = "armed"
    /\ pc' = "awaitHands"
    /\ getOrCreateHands
    /\ IF fresh
       THEN /\ prevLeftCentroid' = Null /\ prevRightCentroid' = Null
            /\ prevDist' = Null
            /\ lastUpdateRef' = 0
       ELSE UNCHANGED refVars
    /\ UNCHANGED <<leftHand, rightHand, isModelLoaded, hasReportedReady,
                   callbackVars, handsRef, cameraRef, stale, sent,
                   cameraVars, restVars>>

\* The 10 s timer of getOrCreateHands fires before hands.initialize() has
\* settled (lines 29-33, 44-48): the race rejects, the promise resolves to
\* null.  The instance is left as it is.
InitializeTimesOut(i) ==
    /\ i \in DOMAIN instances
    /\ instances[i].promise = "pending"
    /\ instances' = [instances EXCEPT ![i].timedOut = TRUE,
                                      ![i].promise = "null"]
    /\ isInitializing' = FALSE
    /\ UNCHANGED <<globalHandsInstance, initializationPromise, handsRef,
                   cameraRef, pc, awaited, loadingTimeout, stale, mounts, sent,
                   controllerVars, cameraVars, restVars>>

\* hands.initialize() of instance i settles (lines 28-48).  While the race
\* is undecided this settles the promise of getOrCreateHands too.
InitializeSettles(i, ok) ==
    /\ i \in DOMAIN instances
    /\ instances[i].init = "pending"
    /\ LET racing == instances[i].promise = "pending"
       IN  /\ instances' =
                [instances EXCEPT
                    ![i].init = IF ok THEN "resolved" ELSE "rejected",
                    ![i].promise = IF ~racing THEN @
                                   ELSE IF ok THEN "hands" ELSE "null"]
           /\ globalHandsInstance' =
                IF racing /\ ok THEN Some(i) ELSE globalHandsInstance
           /\ isInitializing' = IF racing THEN FALSE ELSE isInitializing
    /\ UNCHANGED <<initializationPromise, handsRef, cameraRef, pc, awaited,
                   loadingTimeout, stale, mounts, sent,
                   controllerVars, cameraVars, restVars>>

\* Mutant of HandsArrive: without hands the effect returns at once.
HandsArriveSilent ==
    /\ pc = "awaitHands"
    /\ instances[Val(awaited)].promise # "pending"
    /\ loadingTimeout' = "cleared"
    /\ awaited' = Null
    /\ IF instances[Val(awaited)].promise # "hands"
       THEN /\ pc' = "noHands"
            /\ UNCHANGED <<isModelLoaded, instances, handsRef, cameraRef,
                           hasReportedReady, cameraRunning>>
       ELSE /\ instances' = [instances EXCEPT ![Val(awaited)].onResults = TRUE]
            /\ hasReportedReady' = FALSE
            /\ handsRef' = awaited
            /\ cameraRef' = Some(mounts)
            /\ cameraRunning' = TRUE
            /\ pc' = "awaitCamera"
            /\ UNCHANGED isModelLoaded
    /\ UNCHANGED <<moduleVars, stale, mounts, sent, leftHand, rightHand,
                   refVars, isActive, callbackVars, isCameraActive, restVars>>

\* The mounting effect of the mounted component after `await
\* getOrCreateHands()` (lines 83-231): without hands it reports the model as
\* loaded and ends; with hands it registers the results callback, creates
\* the camera and starts it.
HandsArrive ==
    /\ pc = "awaitHands"
    /\ instances[Val(awaited)].promise # "pending"
    /\ loadingTimeout' = "cleared"
    /\ awaited' = Null
    /\ IF instances[Val(awaited)].promise # "hands"
       THEN /\ isModelLoaded' = TRUE
            /\ pc' = "noHands"
            /\ UNCHANGED <<instances, handsRef, cameraRef, hasReportedReady,
                           cameraRunning>>
       ELSE /\ instances' = [instances EXCEPT ![Val(awaited)].onResults = TRUE]
            /\ hasReportedReady' = FALSE
            /\ handsRef' = awaited
            /\ cameraRef' = Some(mounts)
            /\ cameraRunning' = TRUE
            /\ pc' = "awaitCamera"
            /\ UNCHANGED isModelLoaded
    /\ UNCHANGED <<moduleVars, stale, mounts, sent, leftHand, rightHand,
                   refVars, isActive, callbackVars, isCameraActive, restVars>>

\* The same continuation in an effect that was cleaned up while it awaited
\* promise p (lines 83-90): it still reports the model as loaded when there
\* are no hands, and otherwise returns at `if (!isActive)`.
StaleHandsArrive(p) ==
    /\ p \in stale.hands
    /\ instances[p].promise # "pending"
    /\ stale' = [stale EXCEPT !.hands = @ \ {p}]
    /\ isModelLoaded' = IF instances[p].promise # "hands" THEN TRUE
                        ELSE isModelLoaded
    /\ UNCHANGED <<moduleVars, instances, handsRef, cameraRef, pc, awaited,
                   loadingTimeout, mounts, sent, leftHand, rightHand, refVars,
                   isActive, hasReportedReady, callbackVars, cameraVars,
                   restVars>>

\* camera.start() of the mounted component settles (lines 231-236).
CameraStartSettles(ok) ==
    /\ pc = "awaitCamera"
    /\ pc' = "done"
    /\ isModelLoaded' = IF ok THEN isModelLoaded ELSE TRUE
    /\ cameraRunning' = IF ok THEN cameraRunning ELSE FALSE
    /\ UNCHANGED <<moduleVars, instances, handsRef, cameraRef, awaited,
                   loadingTimeout, stale, mounts, sent, leftHand, rightHand,
                   refVars, isActive, hasReportedReady, callbackVars,
                   isCameraActive, restVars>>

\* camera.start() of an effect that was cleaned up meanwhile settles.
StaleCameraSettles(ok) ==
    /\ stale.camera
    /\ stale' = [stale EXCEPT !.camera = FALSE]
    /\ isModelLoaded' = IF ok THEN isModelLoaded ELSE TRUE
    /\ UNCHANGED <<moduleVars, instances, handsRef, cameraRef, pc, awaited,
                   loadingTimeout, mounts, sent, leftHand, rightHand, refVars,
                   isActive, hasReportedReady, callbackVars, cameraVars,
                   restVars>>

\* The cleanup of the mounting effect (lines 241-247).  What the effect
\* still awaits goes on without the component.
Unmount ==
    /\ isActive
    /\ pending = Null
    /\ isActive' = FALSE
    /\ instances' = IF handsRef = Null THEN instances
                    ELSE [instances EXCEPT ![Val(handsRef)].closed = TRUE]
    /\ cameraRunning' = IF cameraRef = Null THEN cameraRunning ELSE FALSE
    /\ handsRef' = Null
    /\ cameraRef' = Null
    /\ stale' = [hands |-> IF pc = "awaitHands"
                           THEN stale.hands \cup {Val(awaited)}
                           ELSE stale.hands,
                 camera |-> stale.camera \/ pc = "awaitCamera"]
    /\ pc' = "idle"
    /\ awaited' = Null
    /\ loadingTimeout' = "none"
    /\ UNCHANGED <<moduleVars, mounts, sent, leftHand, rightHand, isModelLoaded,
                   refVars, hasReportedReady, callbackVars, isCameraActive,
                   restVars>>

\* The camera button, setCameraActive(active), and the camera effect that
\* follows (lines 250-259), which returns at once without a camera.
ToggleCamera(active) ==
    IF cameraRef # Null
    THEN SetCameraActive(active)
    ELSE /\ active # isCameraActive
         /\ isCameraActive' = active
         /\ UNCHANGED <<cameraRunning, controllerVars, restVars, mountVars>>

\* The running camera hands a frame to the detector (lines 217-225); the
\* next frame waits for send() to return.  send() on a closed instance
\* throws and the frame is dropped.
CameraFrame ==
    /\ cameraRunning /\ pc = "done"
    /\ isActive /\ handsRef # Null
    /\ ~instances[Val(handsRef)].closed
    /\ sent = frames
    /\ sent < MaxFrames
    /\ sent' = sent + 1
    /\ UNCHANGED <<moduleVars, instances, handsRef, cameraRef, pc, awaited,
                   loadingTimeout, stale, mounts, controllerVars, cameraVars,
                   restVars>>

\* The detector delivers the result of the frame it was handed.
DeliverResult(results, gap) == sent > frames /\ OnResults(results, gap)

MountNext ==
    \/ \E fresh \in BOOLEAN : Mount(fresh)
    \/ \E i \in 1..MaxMounts : InitializeTimesOut(i)
    \/ \E i \in 1..MaxMounts, ok \in BOOLEAN : InitializeSettles(i, ok)
    \/ HandsArrive
    \/ \E p \in 1..MaxMounts : StaleHandsArrive(p)
    \/ \E ok \in BOOLEAN : CameraStartSettles(ok)
    \/ \E ok \in BOOLEAN : StaleCameraSettles(ok)
    \/ Unmount
    \/ \E active \in BOOLEAN : ToggleCamera(active)
    \/ CameraFrame
    \/ \E results \in MountResults, gap \in {33} : DeliverResult(results, gap)

MountSpec == MountInit /\ [][MountNext]_vars

\* What the event loop guarantees: the 10 s timer fires unless
\* initialisation settles first, a continuation runs once its promise has
\* settled, and camera.start() settles.  Frames and detector results are
\* not guaranteed.
MountFairness ==
    /\ WF_vars(\E i \in 1..MaxMounts : InitializeTimesOut(i))
    /\ WF_vars(HandsArrive)
    /\ WF_vars(\E p \in 1..MaxMounts : StaleHandsArrive(p))
    /\ WF_vars(\E ok \in BOOLEAN : CameraStartSettles(ok))

MountLiveSpec == MountSpec /\ MountFairness

----------------------------------------------------------------------------
\* Claims about the life cycle of HandController (MountSpec).

\* Initialisation of instance i failed: it rejected, or the 10 s passed.
InitFailed(i) == instances[i].init = "rejected" \/ instances[i].timedOut

\* C21: when Hands initialisation rejects or exceeds the 10 s, the promise
\* of getOrCreateHands resolves to null, and no such promise ever rejects;
\* the mounting effect that finds no hands has set isModelLoaded, no
\* results callback is registered on the failed instance, and the component
\* has no camera, created or started.
NoHandsReported ==
    /\ \A i \in DOMAIN instances :
            /\ instances[i].promise \in {"pending", "hands", "null"}
            /\ InitFailed(i) => /\ instances[i].promise = "null"
                                /\ ~instances[i].onResults
                                /\ globalHandsInstance # Some(i)
    /\ pc = "noHands" =>
            /\ isModelLoaded
            /\ handsRef = Null /\ cameraRef = Null
            /\ ~cameraRunning
            /\ loadingTimeout = "cleared"

\* C21 witness: the mounted effect has ended without hands after a timeout
\* of the one instance, whose initialisation resolved too late.
MountedAfterTimeout ==
    /\ pc = "noHands" /\ isActive
    /\ Len(instances) = 1
    /\ instances[1].timedOut /\ instances[1].init = "resolved"
    /\ isModelLoaded

\* C22 (as claimed): while isCameraActive is false the camera is not started
\* and not running, whenever the switch was turned off.
CameraOffMeansStopped == ~isCameraActive => ~cameraRunning

\* The Hands instances that are initialising or initialised, and not closed.
LiveInstances ==
    { i \in DOMAIN instances :
        instances[i].init \in {"pending", "resolved"} /\ ~instances[i].closed }

\* C24 (as claimed): at no time do two Hands instances exist that are both
\* initialising or initialised.
SingleHandsInstance == Cardinality(LiveInstances) <= 1

\* C27 (as claimed): switching the camera off with an initialised camera
\* leaves leftHand and rightHand null, and while the switch stays off and
\* the camera stopped no step makes either of them non-null again.
HandsStayNullWhileOff ==
    [][ /\ (isCameraActive /\ ~isCameraActive' /\ cameraRef # Null)
            => (leftHand' = Null /\ rightHand' = Null)
        /\ (/\ ~isCameraActive /\ ~isCameraActive'
            /\ cameraRef # Null /\ cameraRef' = cameraRef
            /\ ~cameraRunning
            /\ leftHand = Null /\ rightHand = Null)
            => (leftHand' = Null /\ rightHand' = Null) ]_vars

\* C29 (as claimed): the instance getOrCreateHands hands to a mounting
\* effect, and the instance the component then holds, has not been closed.
HandedInstanceUsable ==
    /\ (pc = "awaitHands" /\ instances[Val(awaited)].promise = "hands")
            => ~instances[Val(awaited)].closed
    /\ handsRef # Null => ~instances[Val(handsRef)].closed

\* C28 (as claimed): while HandController stays mounted, isModelLoaded
\* eventually becomes true.
ModelEventuallyLoaded == isActive ~> (isModelLoaded \/ ~isActive)

----------------------------------------------------------------------------
\* Claims about callbacks in sequence (Spec).

\* The hand is neither grabbing nor open.
Resting(hand) == ~Val(hand).isGrabbing /\ ~Val(hand).isOpen

\* What a callback decides for a lone resting hand.
RestingDecision(d) ==
    /\ d.currentGesture = "IDLE"
    /\ d.rotationDelta = Zero2
    /\ d.leftChestDelta = Zero2 /\ d.rightChestDelta = Zero2
    /\ d.newZoom = zoomFactor

\* C31: when exactly one hand is present and it is neither grabbing nor
\* open, the gesture is IDLE with rotation delta and both chest offsets
\* {0,0}, and that hand's previous centroid becomes its current centroid;
\* so if the last callback had such a hand, the delta of a fist or an open
\* hand of the same side on the next callback is measured from it.
RestingHandTracked ==
    /\ \A left \in LeftHands :
          Resting(left) =>
             LET d == DecisionFor(left, Null)
             IN  /\ RestingDecision(d)
                 /\ d.prevLeftCentroid = Some(Val(left).centroid)
                 /\ d.prevRightCentroid = Null
    /\ \A right \in RightHands :
          Resting(right) =>
             LET d == DecisionFor(Null, right)
             IN  /\ RestingDecision(d)
                 /\ d.prevRightCentroid = Some(Val(right).centroid)
                 /\ d.prevLeftCentroid = Null
    /\ (lastLeft # Null /\ lastRight = Null /\ Resting(lastLeft)) =>
          \A left \in LeftHands :
             LET d == DecisionFor(left, Null)
                 from == Val(lastLeft).centroid
             IN  /\ Val(left).isGrabbing =>
                        d.rotationDelta = RotationOf(Val(left).centroid, from)
                 /\ (~Val(left).isGrabbing /\ Val(left).isOpen) =>
                        d.leftChestDelta = OffsetOf(Val(left).centroid, from)
    /\ (lastRight # Null /\ lastLeft = Null /\ Resting(lastRight)) =>
          \A right \in RightHands :
             LET d == DecisionFor(Null, right)
                 from == Val(lastRight).centroid
             IN  /\ Val(right).isGrabbing =>
                        d.rotationDelta = RotationOf(Val(right).centroid, from)
                 /\ (~Val(right).isGrabbing /\ Val(right).isOpen) =>
                        d.rightChestDelta = OffsetOf(Val(right).centroid, from)

\* C31 witness: the left hand was alone and resting at D on the first
\* callback, published as IDLE; on the second it is open and alone at B,
\* and INTERACT_LEFT is published with the offset from D to B.
RestThenInteractLeft ==
    /\ JustPublished
    /\ frames = 2
    /\ gesture = "INTERACT_LEFT"
    /\ leftHand # Null /\ rightHand = Null
    /\ Val(leftHand).centroid = CentroidB
    /\ leftChestOffset = OffsetOf(CentroidB, CentroidD)
    /\ leftChestOffset # Zero2

\* C32: a callback the throttle suppresses leaves the store as it is:
\* its rotation delta, chest offsets, gesture and zoom change are dropped.
\* No later publication adds them: a published callback writes the zoom it
\* computed from the store's zoomFactor and adds its own rotation delta,
\* if it is a ROTATE, to accumulatedRotation, and the second update of a
\* ROTATE publication changes neither.
SuppressedCallbackDiscarded ==
    [][ /\ (frames' = frames + 1 /\ lastPublishAt' # Some(now'))
            => UNCHANGED <<storeVars, isModelLoaded, lastUpdateRef, pending>>
        /\ (frames' = frames + 1 /\ lastPublishAt' = Some(now'))
            => LET d == DecisionFor(lastLeft', lastRight')
               IN  /\ zoomFactor' = d.newZoom
                   /\ accumulatedRotation' =
                        IF d.currentGesture = "ROTATE"
                        THEN [x |-> accumulatedRotation.x + d.rotationDelta.x,
                              y |-> accumulatedRotation.y + d.rotationDelta.y]
                        ELSE accumulatedRotation
        /\ (frames' = frames /\ pending # Null)
            => UNCHANGED <<zoomFactor, accumulatedRotation>>
      ]_vars

\* C32 witness: the first callback, with both hands, was published as IDLE;
\* the second, 16 ms later and suppressed, saw them at a distance that
\* differs by more than the dead zone: its zoom never reached the store.
ZoomDiscarded ==
    /\ JustSuppressed
    /\ frames = 2
    /\ leftHand # Null /\ rightHand # Null
    /\ lastLeft # Null /\ lastRight # Null
    /\ OutsideDeadZone(HandsDistance(lastLeft, lastRight)
                       - HandsDistance(leftHand, rightHand))
    /\ gesture = "IDLE"
    /\ zoomFactor = InitialZoom
    /\ prevDist = Some(HandsDistance(lastLeft, lastRight))

\* The store shows no hand and no gesture.
IdleStore ==
    /\ gesture = "IDLE"
    /\ rotationDelta = Zero2
    /\ leftChestOffset = Zero2 /\ rightChestOffset = Zero2
    /\ leftHand = Null /\ rightHand = Null

\* The last callback saw no hand, and neither does the callback of the step.
StillQuiet ==
    /\ lastLeft = Null /\ lastRight = Null
    /\ lastLeft' = Null /\ lastRight' = Null

\* C33: a callback without hands comes later than the one before it; more
\* than 32 ms after the last publication it puts the store into the idle
\* state (gesture IDLE, zero deltas and offsets, no hands); within the 32 ms
\* it leaves the store and the time of the last publication as they are, so
\* that callbacks that keep arriving without hands reach the idle state;
\* and once there the store stays idle for as long as no hand appears.
QuietStoreSettles ==
    [][ /\ (frames' = frames + 1 /\ lastLeft' = Null /\ lastRight' = Null)
            => /\ now' > now
               /\ IF now' - lastUpdateRef > ThrottleMs
                  THEN IdleStore' /\ pending' = Null /\ lastUpdateRef' = now'
                  ELSE UNCHANGED <<storeVars, lastUpdateRef>>
        /\ (frames' = frames + 1 /\ now' - lastUpdateRef <= ThrottleMs)
            => now' - lastUpdateRef' > now - lastUpdateRef
        /\ (IdleStore /\ StillQuiet) => IdleStore'
      ]_vars

\* C33 witness: the first callback published an open left hand; the second,
\* 16 ms later, saw no hand and was suppressed, so the store still shows
\* the hand and its gesture while the detector sees nothing.
QuietButNotYetIdle ==
    /\ JustSuppressed
    /\ frames = 2
    /\ lastLeft = Null /\ lastRight = Null
    /\ prevLeftCentroid = Null /\ prevRightCentroid = Null /\ prevDist = Null
    /\ leftHand # Null /\ gesture = "INTERACT_LEFT"
    /\ now - lastUpdateRef = 16

----------------------------------------------------------------------------
\* Further claims about the life cycle of HandController (MountSpec).

\* C34: a detector result delivered after the cleanup of the mounting
\* effect changes neither the hands, the gesture, the zoom factor, the
\* rotation delta, the chest offsets and accumulatedRotation in the store
\* nor the previous centroids, the previous distance and the time of the
\* last publication; of the store it may only set isModelLoaded.
LateResultIgnored ==
    [][ (frames' = frames + 1 /\ ~isActive)
            => /\ UNCHANGED <<storeVars, refVars>>
               /\ UNCHANGED <<isCameraActive, movementIntensity>>
               /\ isModelLoaded => isModelLoaded'
      ]_vars

\* C34 witness: the one result so far, sent before the component was
\* unmounted, was delivered after the cleanup: the callback has run and
\* reported the model as loaded, and nothing was decided or published.
ResultAfterCleanup ==
    /\ ~isActive /\ pc = "idle"
    /\ frames = 1 /\ sent = 1
    /\ hasReportedReady /\ isModelLoaded
    /\ lastPublishAt = Null /\ lastUpdateRef = 0
    /\ IdleStore

----------------------------------------------------------------------------
\* Further claims about the rig (SceneSpec).  A render tick is a step with
\* ticks' = ticks + 1; it reads the store as it is before the step, at the
\* time clock'.

\* The targets the chest and the hip springs get without an interaction.
ChestIdleLeft == IdleTarget(Rounded(clock' * 8, 10), movementIntensity)

ChestIdleRight == IdleTarget(Rounded(clock' * 8, 10) + 100, movementIntensity)

HipIdleLeft == IdleTarget(clock' * 2, movementIntensity)

HipIdleRight == IdleTarget(clock' * 2 + 200, movementIntensity)

\* A breast joint follows its spring alone.
BreastOnSpring(joint, s) ==
    joint \in bones =>
        rotation'[joint].x = BaseRotation.x + Rounded(springs'[s].value, 2)

\* C35: on every render tick the view is front iff |(3 * yaw) mod 2pi| is
\* below pi/2 or above 3pi/2, and back otherwise; the classification is
\* periodic in the yaw.  In back view the chest springs get their idle
\* targets and the breast joints no offset term; in front view the hip
\* springs get their idle targets and the hip joint eases back to its
\* initial rotation instead of tilting.
ViewGatesRegions ==
    [][ ticks' = ticks + 1 =>
          LET front == IsFrontView(accumulatedRotation)
              a == Abs(3 * accumulatedRotation.x) % TwoPi
          IN  /\ front <=> (a < HalfPi \/ a > ThreeHalfPi)
              /\ \A k \in {-1, 1} :
                    IsFrontView([accumulatedRotation EXCEPT !.x = @ + k * TwoPi])
                        = front
              /\ ~front =>
                    /\ springs'.leftChest.target = ChestIdleLeft
                    /\ springs'.rightChest.target = ChestIdleRight
                    /\ BreastOnSpring("breastL", "leftChest")
                    /\ BreastOnSpring("breastR", "rightChest")
              /\ (front /\ "hips" \in bones) =>
                    /\ springs'.leftHip.target = HipIdleLeft
                    /\ springs'.rightHip.target = HipIdleRight
                    /\ rotation'["hips"].x = Lerp(rotation["hips"].x, BaseRotation.x, 10)
                    /\ rotation'["hips"].z = Lerp(rotation["hips"].z, BaseRotation.z, 10)
              /\ (front /\ gesture = "INTERACT_LEFT") =>
                    springs'.leftChest.target =
                        ChestForce(leftChestOffset, movementIntensity)
              /\ (~front /\ gesture = "INTERACT_LEFT" /\ "hips" \in bones) =>
                    springs'.rightHip.target =
                        HipForce(leftChestOffset, movementIntensity)
      ]_vars

\* C35 witness: a frame was rendered in back view under INTERACT_LEFT with
\* a non-zero offset: the right hip spring has the interaction target, the
\* chest springs have not.
BackViewTickRendered ==
    /\ ticks >= 1
    /\ ~IsFrontView(accumulatedRotation)
    /\ gesture = "INTERACT_LEFT" /\ leftChestOffset # Zero2
    /\ "hips" \in bones /\ "breastL" \in bones
    /\ springs.rightHip.target = HipForce(leftChestOffset, movementIntensity)
    /\ springs.rightHip.target # IdleTarget(clock * 2 + 200, movementIntensity)
    /\ springs.leftChest.target # ChestForce(leftChestOffset, movementIntensity)

\* C36: in back view, with the hip joint found, INTERACT_LEFT gives the
\* right hip spring a target computed from leftChestOffset and leaves the
\* left hip spring on its idle target; INTERACT_RIGHT gives the left hip
\* spring a target computed from rightChestOffset and leaves the right hip
\* spring on its idle target.
HandsDriveOppositeHip ==
    [][ (ticks' = ticks + 1 /\ ~IsFrontView(accumulatedRotation)
            /\ "hips" \in bones) =>
          /\ gesture = "INTERACT_LEFT" =>
                /\ springs'.rightHip.target =
                       HipForce(leftChestOffset, movementIntensity)
                /\ springs'.leftHip.target = HipIdleLeft
          /\ gesture = "INTERACT_RIGHT" =>
                /\ springs'.leftHip.target =
                       HipForce(rightChestOffset, movementIntensity)
                /\ springs'.rightHip.target = HipIdleRight
      ]_vars

\* C36 witness: after a frame in back view under INTERACT_LEFT the two hip
\* springs have different targets: the right one the force of the left
\* hand, the left one the idle target.
LeftHandOnRightHip ==
    /\ ticks >= 1
    /\ ~IsFrontView(accumulatedRotation)
    /\ gesture = "INTERACT_LEFT" /\ leftChestOffset.x # 0
    /\ "hips" \in bones
    /\ springs.rightHip.target = HipForce(leftChestOffset, movementIntensity)
    /\ springs.leftHip.target = IdleTarget(clock * 2, movementIntensity)
    /\ springs.leftHip.target # HipForce(leftChestOffset, movementIntensity)
    /\ springs.rightHip.target # IdleTarget(clock * 2 + 200, movementIntensity)

\* Offsets another tick could have read instead of the stored one.
OtherOffsets == { [x |-> x, y |-> y] : x \in {0, 6}, y \in {-600, 0, 600} }

\* The frame of this tick, had the offset of the interacting hand been o.
FrameWithOffset(o) ==
    LET f == FrameOf(clock')
    IN  IF f.gesture = "INTERACT_LEFT"
        THEN [f EXCEPT !.left = o, !.interactOffset = o]
        ELSE [f EXCEPT !.right = o, !.interactOffset = o]

\* The chest spring s and the breast joint get the values of this tick.
SideAsRendered(f, s, joint) ==
    LET sp == ChestSprings(f, springs)
    IN  /\ sp[s] = springs'[s]
        /\ BreastJoints(f, sp, rotation)[joint] = rotation'[joint]

\* C37: in front view, a tick under INTERACT_LEFT gives the right chest
\* spring and the right breast joint the same values whatever
\* leftChestOffset is, and a tick under INTERACT_RIGHT gives the left chest
\* spring and the left breast joint the same values whatever
\* rightChestOffset is.
OppositeSideIgnoresOffset ==
    [][ (ticks' = ticks + 1 /\ IsFrontView(accumulatedRotation)) =>
          \A o \in OtherOffsets :
              /\ gesture = "INTERACT_LEFT" =>
                    SideAsRendered(FrameWithOffset(o), "rightChest", "breastR")
              /\ gesture = "INTERACT_RIGHT" =>
                    SideAsRendered(FrameWithOffset(o), "leftChest", "breastL")
      ]_vars

\* C37 witness: a frame was rendered in front view under INTERACT_LEFT with
\* a vertical offset: the left chest spring has the force of the offset as
\* its target, the right chest spring has the target 0.
LeftChestDrivenAlone ==
    /\ ticks >= 1
    /\ IsFrontView(accumulatedRotation)
    /\ gesture = "INTERACT_LEFT" /\ leftChestOffset.y # 0
    /\ "breastL" \in bones /\ "breastR" \in bones
    /\ springs.leftChest.target = ChestForce(leftChestOffset, movementIntensity)
    /\ springs.leftChest.target > 0
    /\ springs.rightChest.target = 0

----------------------------------------------------------------------------
\* BoneSpec: RigController.findBone applied to the nodes of one model.
\* A string is a sequence of characters; a node is its key in `nodes` (name)
\* and whether the object is a THREE.Bone (isBone).

Chars == {"a", "b", "B"}

\* String.prototype.toLowerCase
toLowerCase(str) ==
    [i \in DOMAIN str |-> IF str[i] = "B" THEN "b" ELSE str[i]]

\* String.prototype.includes
includes(str, part) ==
    \E i \in 0..(Len(str) - Len(part)) : SubSeq(str, i + 1, i + Len(part)) = part

MaxNodes == 2

MaxPatterns == 2

\* Names of nodes: one or two characters.
NodeNames == { <<c>> : c \in Chars } \cup { <<c, d>> : c \in Chars, d \in Chars }

\* The `nodes` object of a model: up to MaxNodes nodes with different keys.
Models ==
    LET Node == [name : NodeNames, isBone : BOOLEAN]
    IN  { m \in UNION { [1..n -> Node] : n \in 0..MaxNodes } :
            \A i \in DOMAIN m, j \in DOMAIN m : m[i].name = m[j].name => i = j }

\* Strings passed as patterns and as exclusions.
PatternStrings == { <<c>> : c \in Chars } \cup { <<"a", "B">> }

PatternLists == UNION { [1..n -> PatternStrings] : n \in 1..MaxPatterns }

ExclusionLists == { <<>> } \cup { <<ex>> : ex \in PatternStrings }

\* The predicate of nodeNames.find for one pattern.
NameMatches(node, pattern, exclusion) ==
    LET lower == toLowerCase(node.name)
    IN  /\ includes(lower, toLowerCase(pattern))
        /\ ~\E k \in DOMAIN exclusion : includes(lower, exclusion[k])
        /\ node.isBone

\* The for loop from pattern number k on.
RECURSIVE FindFrom(_, _, _)
FindFrom(k, patterns, exclusion) ==
    IF k > Len(patterns) THEN Null
    ELSE LET hits == { i \in DOMAIN nodes :
                          NameMatches(nodes[i], patterns[k], exclusion) }
         IN  IF hits # {}
             THEN Some(nodes[CHOOSE i \in hits : \A j \in hits : i <= j])
             ELSE FindFrom(k + 1, patterns, exclusion)

findBone(patterns, exclusion) == FindFrom(1, patterns, exclusion)

BoneInit ==
    /\ ControllerInit /\ KeypointIdle /\ SpringIdle /\ CameraOn
    /\ SceneLoaded(Joints) /\ MountedReady
    /\ nodes \in Models
    /\ lookup \in { Some([patterns |-> p, exclusion |-> e]) :
                      p \in PatternLists, e \in ExclusionLists }
    /\ found = Null

\* One call of findBone.
FindBone ==
    /\ lookup # Null /\ found = Null
    /\ found' = Some(findBone(Val(lookup).patterns, Val(lookup).exclusion))
    /\ UNCHANGED <<nodes, lookup, controllerVars, keypointVars, springVars,
                   cameraVars, sceneVars, mountVars>>

BoneNext == FindBone

BoneSpec == BoneInit /\ [][BoneNext]_vars

\* The name of node contains the string, whatever the case of either.
ContainsAnyCase(node, str) == includes(toLowerCase(node.name), toLowerCase(str))

\* A Bone whose name contains no exclusion pattern, whatever the case.
EligibleNode(node) ==
    /\ node.isBone
    /\ \A k \in DOMAIN Val(lookup).exclusion :
          ~ContainsAnyCase(node, Val(lookup).exclusion[k])

\* The eligible nodes whose name contains pattern number k.
EligibleMatches(k) ==
    { i \in DOMAIN nodes : /\ EligibleNode(nodes[i])
                           /\ ContainsAnyCase(nodes[i], Val(lookup).patterns[k]) }

\* C38: findBone returns a node that is a Bone, contains no exclusion
\* pattern (whatever the case) and contains the earliest pattern of the list
\* that some such node contains; it returns null when no pattern has such a
\* node.
FindBoneHonoursExclusions ==
    found # Null =>
        LET first == { k \in DOMAIN Val(lookup).patterns :
                          /\ EligibleMatches(k) # {}
                          /\ \A j \in 1..(k - 1) : EligibleMatches(j) = {} }
        IN  IF first = {}
            THEN Val(found) = Null
            ELSE /\ Val(found) # Null
                 /\ \E k \in first : \E i \in EligibleMatches(k) :
                       Val(Val(found)) = nodes[i]

----------------------------------------------------------------------------
\* Further claims about GestureRecognizer (KeypointSpec).

\* What the callback decides when the analysed hand is the only one seen.
LoneHandDecision ==
    IF handedness = "Left"
    THEN DecisionFor(Val(analysis).hand, Null)
    ELSE DecisionFor(Null, Val(analysis).hand)

\* C39: isGrabbing and isOpen are never both true of the same array, neither
\* as returned by the predicates nor as flags of the Hand; when both are
\* false, the hand alone makes the callback decide on no gesture.
NeverFistAndOpen ==
    analysis # Null =>
        LET a == Val(analysis)
        IN  /\ ~(a.isGrabbing /\ a.isOpen)
            /\ a.hand # Null => ~(Val(a.hand).isGrabbing /\ Val(a.hand).isOpen)
            /\ (a.hand # Null /\ ~a.isGrabbing /\ ~a.isOpen) =>
                  LoneHandDecision.currentGesture = "IDLE"

\* C39 witness: a hand whose four finger tips are as far from the wrist as
\* their PIP joints has been analysed: it is neither a fist nor open.
NeitherFistNorOpen ==
    /\ analysis # Null
    /\ keypoints = Some(HandArray(REQUIRED_KEYPOINTS, [f \in 1..4 |-> "level"], FALSE))
    /\ Val(analysis).hand # Null
    /\ ~Val(Val(analysis).hand).isGrabbing
    /\ ~Val(Val(analysis).hand).isOpen
    /\ LoneHandDecision.currentGesture = "IDLE"

====
